---- MODULE Spec2Model ----
(***************************************************************************)
(* A model of pyblitz: the OpenAPI parser's endpoint tree                  *)
(* (generator/parser.py), the endpoint code generator                      *)
(* (generator/generate.py), the runtime response replay                    *)
(* (http/responses.py) and the Schema base class (common/__init__.py).     *)
(*                                                                         *)
(* Python strings are sequences of one-character strings, Python dicts are *)
(* sequences of [k, v] entries in insertion order, None is 0 where a       *)
(* reference to a node is expected, and a raised exception is the name of  *)
(* its class in an "err"/"outcome" field.                                  *)
(***************************************************************************)
EXTENDS Integers, Sequences, FiniteSets, TLC

VARIABLES
    nodes,          \* heap of Parser.Endpoint objects, 1-based ids
    endpointsDict,  \* Parser.__endpointsDict: root segment -> node id
    methods,        \* heap of Parser.Method objects, 1-based ids
    lastRec,        \* the last _recordMethod call: its arguments and outcome
    recorded,       \* the (pathUrl, verb) pairs _recordMethod was called with
    genResult,      \* the result of the last _EndpointWriter._genEndpoints call
    servers,        \* Parser.__servers
    schemaDict,     \* Parser.__schemaDict: schema name -> Parser.Schema
    apiCall,        \* the last generateAPI call: its arguments and outcome
    apiFile,        \* the file at apiOutputPath: [exists, text]
    response,       \* the last Response(...) construction: its arguments and outcome
    instance,       \* a pyblitz.Schema instance: [made, cls, fields, filter]
    serialized,     \* the last serialize call on it: its argument and results
    loaded,         \* the last fromSerialized / _loadJsonDict call: arguments and outcome
    regen,          \* a second generateAPI run on the same document: the text of the
                    \* first run and the outcome of the second
    net,            \* http.network._NetworkState: [isAuthed, activeServer, servers, token]
    netLog,         \* the calls made to http.network: their number, the last call and
                    \* its outcome, the name last activated, the requests sent
    resolved,       \* the last _evalRefObj call: its document, argument and outcome
    propLog,        \* the _recordSchemaProperty calls made by a caller, in order
    pathLog,        \* the last Endpoint.getPath call of a caller that builds its own
                    \* tree, since the tree last changed: the node and the string
                    \* returned; and the number of addChild calls made
    throttler,      \* http.throttler.RequestThrottler: [throttle, pendingTimer]
    callers,        \* the threads calling sendRequest: each one's position in it
    timers,         \* the threading.Timer objects started, in order of creation
    now,            \* the time, in the unit of the throttle
    sent            \* the requests sent, in order: the thread, the time and the
                    \* timer installed by the call

vars == <<nodes, endpointsDict, methods, lastRec, recorded, genResult,
          servers, schemaDict, apiCall, apiFile, response, instance, serialized,
          loaded, regen, net, netLog, resolved, propLog,
          pathLog, throttler, callers, timers, now, sent>>

apiVars == <<servers, schemaDict, apiCall, apiFile>>

runVars == <<response, instance, serialized>>

treeVars == <<nodes, endpointsDict, methods, lastRec, recorded, genResult>>

callVars == <<loaded, regen, net, netLog, resolved, propLog>>

concVars == <<throttler, callers, timers, now, sent>>

-----------------------------------------------------------------------------
(* Bounds                                                                  *)

MaxPathLen == 3
MaxRecords == 2
MaxGenRecords == 3

-----------------------------------------------------------------------------
(* Python dict: insertion-ordered, assignment to a present key keeps its   *)
(* position.                                                               *)

DictKeys(d) == {d[i].k : i \in 1..Len(d)}

DictHas(d, key) == key \in DictKeys(d)

DictIdx(d, key) == CHOOSE i \in 1..Len(d) : d[i].k = key

DictGet(d, key) == d[DictIdx(d, key)].v

DictSet(d, key, val) ==
    IF DictHas(d, key)
    THEN [d EXCEPT ![DictIdx(d, key)] = [k |-> key, v |-> val]]
    ELSE Append(d, [k |-> key, v |-> val])

DictValues(d) == [i \in 1..Len(d) |-> d[i].v]

-----------------------------------------------------------------------------
(* str.split("/")                                                          *)

HasSlash(s) == \E i \in 1..Len(s) : s[i] = "/"

FirstSlash(s) == CHOOSE i \in 1..Len(s) : s[i] = "/" /\ \A j \in 1..(i-1) : s[j] # "/"

RECURSIVE Split(_)
Split(s) ==
    IF ~HasSlash(s) THEN <<s>>
    ELSE <<SubSeq(s, 1, FirstSlash(s) - 1)>> \o Split(SubSeq(s, FirstSlash(s) + 1, Len(s)))

\* pathsSplit after "if pathsSplit[0] == '': pathsSplit.pop(0)"
PathsSplit_keepLeading(pathUrl) == Split(pathUrl)

PathsSplit(pathUrl) ==
    IF Head(Split(pathUrl)) = <<>> THEN Tail(Split(pathUrl)) ELSE Split(pathUrl)

-----------------------------------------------------------------------------
(* Parser.Endpoint                                                         *)

\* an addChild that enters the child in the children map and leaves its parent
\* link alone
addChild_noParent(ns, parent, child) ==
    [ns EXCEPT ![parent].childrenDict = DictSet(@, ns[child].pathName, child)]

\* Endpoint.addChild(self = parent, childEndpoint = child)
addChild(ns, parent, child) ==
    [ns EXCEPT ![child].parent = parent,
               ![parent].childrenDict = DictSet(@, ns[child].pathName, child)]

hasChild(ns, n, childName) == DictHas(ns[n].childrenDict, childName)

getChildFromName(ns, n, childName) == DictGet(ns[n].childrenDict, childName)

\* Endpoint.__init__(pathName, parent): the new object gets id Len(ns) + 1
Endpoint(ns, pathName, parent) ==
    LET fresh == [pathName |-> pathName, parent |-> 0, lastParentOnPathCheck |-> 0,
                  methodsDict |-> <<>>, childrenDict |-> <<>>,
                  pathSet |-> FALSE, path |-> <<>>]
        ns1 == Append(ns, fresh)
    IN IF parent # 0 THEN addChild(ns1, parent, Len(ns1)) ELSE ns1

\* Endpoint.getPath(): the returned string and the heap with the caches it fills
RECURSIVE getPath(_, _)
getPath(ns, n) ==
    IF ~ns[n].pathSet \/ ns[n].lastParentOnPathCheck # ns[n].parent
    THEN LET pr == IF ns[n].parent # 0 THEN getPath(ns, ns[n].parent)
                   ELSE [nodes |-> ns, path |-> <<>>]
             p == pr.path \o <<"/">> \o ns[n].pathName
         IN [nodes |-> [pr.nodes EXCEPT ![n].path = p, ![n].pathSet = TRUE,
                                        ![n].lastParentOnPathCheck = ns[n].parent],
             path |-> p]
    ELSE [nodes |-> ns, path |-> ns[n].path]

\* Endpoint.addMethod(method): method is a Method id, keyed by the method's name
addMethod(ns, ms, n, method) ==
    [ns EXCEPT ![n].methodsDict = DictSet(@, ms[method].name, method)]

hasMethod(ns, n, methodName) == DictHas(ns[n].methodsDict, methodName)

getMethodFromName(ns, n, methodName) == DictGet(ns[n].methodsDict, methodName)

\* Parser.Method.__init__(name, desc)
Method(name, desc) == [name |-> name, desc |-> desc, responseSchemasByCode |-> <<>>]

-----------------------------------------------------------------------------
(* Parser._recordMethod                                                    *)

\* the loop "for childName in pathsSplit" from the state (ns, roots, endpoint)
RECURSIVE WalkPath(_, _, _, _)
WalkPath(ns, roots, endpoint, segs) ==
    IF segs = <<>> THEN [nodes |-> ns, endpointsDict |-> roots, endpoint |-> endpoint]
    ELSE LET childName == Head(segs) IN
         IF endpoint = 0
         THEN LET make   == ~DictHas(roots, childName)
                  ns1    == IF make THEN Endpoint(ns, childName, 0) ELSE ns
                  roots1 == IF make THEN DictSet(roots, childName, Len(ns1)) ELSE roots
              IN WalkPath(ns1, roots1, DictGet(roots1, childName), Tail(segs))
         ELSE LET ns1 == IF ~hasChild(ns, endpoint, childName)
                         THEN Endpoint(ns, childName, endpoint) ELSE ns
              IN WalkPath(ns1, roots, getChildFromName(ns1, endpoint, childName), Tail(segs))

\* _recordMethod(pathUrl, method) on the parser state (ns, roots, ms); method is
\* the id of a Method of ms.  endpoint None at the end: None.addMethod raises.
recordMethod(ns, roots, ms, pathUrl, method) ==
    LET w == WalkPath(ns, roots, 0, PathsSplit(pathUrl)) IN
    IF w.endpoint = 0
    THEN [nodes |-> w.nodes, endpointsDict |-> w.endpointsDict, endpoint |-> 0,
          err |-> "AttributeError"]
    ELSE [nodes |-> addMethod(w.nodes, ms, w.endpoint, method),
          endpointsDict |-> w.endpointsDict, endpoint |-> w.endpoint, err |-> "none"]

-----------------------------------------------------------------------------
(* Inputs of the endpoint-tree specification                               *)

Chars == {"/", "a"}

Verbs == {<<"get">>, <<"post">>}

\* the urls of up to MaxPathLen characters that begin with "/", and three
\* that do not
PathUrls ==
    {pathUrl \in UNION {[1..n -> Chars] : n \in 1..MaxPathLen} : pathUrl[1] = "/"}
    \cup {<<>>, <<"a">>, <<"a", "/", "a">>}

NoCall == [called |-> FALSE, err |-> "none", doc |-> [kind |-> "none", s |-> <<>>, items |-> <<>>],
           apiOutputPath |-> <<>>, sliceHashable |-> FALSE]

NoRegen == [called |-> FALSE, err |-> "none", first |-> <<>>]

NoResponse ==
    [called |-> FALSE, err |-> "none", status |-> 0, body |-> <<>>, paths |-> <<>>,
     jsonDict |-> <<>>, transformedJsonDict |-> <<>>]

\* filtered: serialFilter has been called on the instance
NoInstance == [made |-> FALSE, cls |-> <<>>, fields |-> <<>>, filter |-> <<>>,
               filtered |-> FALSE]

NoSerialized ==
    [called |-> FALSE, ignoreFilter |-> FALSE, filter |-> <<>>, inner |-> <<>>, out |-> <<>>,
     filtered |-> FALSE]

NoLoaded == [called |-> FALSE, op |-> "", jsonDict |-> <<>>, looseChecking |-> FALSE,
             before |-> <<>>, err |-> "none"]

NoResolved == [called |-> FALSE, doc |-> [kind |-> "none", s |-> <<>>, items |-> <<>>],
               arg |-> <<>>, err |-> "none", loc |-> <<>>]

\* None as the value of _NetworkState.activeServer
NoServer == [isNone |-> TRUE, url |-> <<>>]

\* class _NetworkState, as the module is imported
NetworkState == [isAuthed |-> FALSE, activeServer |-> NoServer, servers |-> <<>>,
                 token |-> ""]

NoNetLog == [count |-> 0, op |-> "", name |-> "", url |-> <<>>, err |-> "none",
             activeName |-> "", before |-> NetworkState, sent |-> <<>>]

\* no getPath call made yet by a caller that builds its own tree; moves counts
\* the caller's addChild calls
NoPathLog == [called |-> FALSE, node |-> 0, path |-> <<>>, moves |-> 0]

\* RequestThrottler.__init__: _throttle = 0, _pendingTimer = None (0)
RequestThrottler == [throttle |-> 0, pendingTimer |-> 0]

\* the threads that may call sendRequest on the one throttler
Threads == {"main", "worker"}

\* a thread outside sendRequest that has made no call yet.  seen: the number of
\* Timer objects that existed when the thread last left the wait; timer: the
\* Timer its call created
NoCaller == [pc |-> "idle", calls |-> 0, seen |-> 0, timer |-> 0]

NoRec == [pathUrl |-> <<>>, verb |-> <<>>, node |-> 0, method |-> 0, replaced |-> 0,
          again |-> FALSE, err |-> "none", count |-> 0]

Init ==
    /\ nodes = <<>>
    /\ endpointsDict = <<>>
    /\ methods = <<>>
    /\ lastRec = NoRec
    /\ recorded = {}
    /\ genResult = [err |-> "none", taken |-> <<>>, emitted |-> <<>>, called |-> FALSE]
    /\ servers = <<>>
    /\ schemaDict = <<>>
    /\ apiCall = NoCall
    /\ apiFile = [exists |-> FALSE, text |-> <<>>]
    /\ response = NoResponse
    /\ instance = NoInstance
    /\ serialized = NoSerialized
    /\ loaded = NoLoaded
    /\ regen = NoRegen
    /\ net = NetworkState
    /\ netLog = NoNetLog
    /\ resolved = NoResolved
    /\ propLog = <<>>
    /\ pathLog = NoPathLog
    /\ throttler = RequestThrottler
    /\ callers = [t \in Threads |-> NoCaller]
    /\ timers = <<>>
    /\ now = 0
    /\ sent = <<>>

\* A caller builds Parser.Method(verb, desc) and calls _recordMethod(pathUrl, it)
RecordMethod(pathUrl, verb) ==
    LET ms  == Append(methods, Method(verb, <<>>))
        mid == Len(ms)
        w   == WalkPath(nodes, endpointsDict, 0, PathsSplit(pathUrl))
        old == IF w.endpoint # 0 /\ hasMethod(w.nodes, w.endpoint, verb)
               THEN getMethodFromName(w.nodes, w.endpoint, verb) ELSE 0
        r   == recordMethod(nodes, endpointsDict, ms, pathUrl, mid)
    IN /\ nodes' = r.nodes
       /\ endpointsDict' = r.endpointsDict
       /\ methods' = ms
       /\ lastRec' = [pathUrl |-> pathUrl, verb |-> verb, node |-> r.endpoint,
                      method |-> mid, replaced |-> old,
                      again |-> (<<pathUrl, verb>> \in recorded), err |-> r.err,
                      count |-> lastRec.count + 1]
       /\ recorded' = recorded \cup {<<pathUrl, verb>>}
       /\ UNCHANGED <<pathLog, concVars, callVars, genResult, apiVars, runVars>>

\* A caller calls getPath() on the node that last received a method
GetPath ==
    /\ lastRec.node # 0
    /\ ~nodes[lastRec.node].pathSet
    /\ nodes' = getPath(nodes, lastRec.node).nodes
    /\ UNCHANGED <<pathLog, concVars, callVars, endpointsDict, methods, lastRec, recorded, genResult, apiVars, runVars>>

NextTree ==
    \/ \E pathUrl \in PathUrls, verb \in Verbs :
          lastRec.count < MaxRecords /\ RecordMethod(pathUrl, verb)
    \/ GetPath

SpecTree == Init /\ [][NextTree]_vars


-----------------------------------------------------------------------------
(* common._convertDashesToCamelCase and Endpoint.className                 *)

Upper(c) == CASE c = "a" -> "A" [] c = "u" -> "U" [] c = "i" -> "I"
              [] c = "j" -> "J" [] OTHER -> c

HasDash(s) == \E i \in 1..Len(s) : s[i] = "-"

FirstDash(s) == CHOOSE i \in 1..Len(s) : s[i] = "-" /\ \A j \in 1..(i-1) : s[j] # "-"

RECURSIVE SplitDash(_)
SplitDash(s) ==
    IF ~HasDash(s) THEN <<s>>
    ELSE <<SubSeq(s, 1, FirstDash(s) - 1)>> \o SplitDash(SubSeq(s, FirstDash(s) + 1, Len(s)))

\* _capitalize(string): string[0] of the empty string raises IndexError
capitalize(string) ==
    IF string = <<>> THEN [err |-> "IndexError", str |-> <<>>]
    ELSE [err |-> "none", str |-> <<Upper(string[1])>> \o Tail(string)]

RECURSIVE JoinCapitalized(_)
JoinCapitalized(strList) ==
    IF strList = <<>> THEN [err |-> "none", str |-> <<>>]
    ELSE LET h == capitalize(Head(strList))
             t == JoinCapitalized(Tail(strList))
         IN IF h.err # "none" THEN h
            ELSE IF t.err # "none" THEN t
            ELSE [err |-> "none", str |-> h.str \o t.str]

convertDashesToCamelCase(string) ==
    LET strList == SplitDash(string)
        rest    == JoinCapitalized(Tail(strList))
    IN IF rest.err # "none" THEN rest
       ELSE [err |-> "none", str |-> Head(strList) \o rest.str]

\* Endpoint.className: _pathName[0] of the empty segment raises IndexError
className(ns, n) ==
    LET name == ns[n].pathName IN
    IF name = <<>> THEN [err |-> "IndexError", str |-> <<>>]
    ELSE convertDashesToCamelCase(
             IF name[1] = "{" THEN SubSeq(name, 2, Len(name) - 1) ELSE name)

-----------------------------------------------------------------------------
(* _EndpointWriter: the classification and the emission paths              *)

children(ns, n) == DictValues(ns[n].childrenDict)

\* _isVariableEndpoint: "yes", "no", or the IndexError of an empty segment
isVariableEndpoint(ns, n) ==
    LET name == ns[n].pathName IN
    IF name = <<>> THEN "IndexError"
    ELSE IF name[1] = "{" /\ name[Len(name)] = "}" THEN "yes" ELSE "no"

\* the loop of _isExpressionEndpoint over the children cs, in order
RECURSIVE AnyVariable(_, _)
AnyVariable(ns, cs) ==
    IF cs = <<>> THEN "no"
    ELSE LET v == isVariableEndpoint(ns, Head(cs)) IN
         IF v = "no" THEN AnyVariable(ns, Tail(cs)) ELSE v

isExpressionEndpoint(ns, n) == AnyVariable(ns, children(ns, n))

\* the list comprehension of the Variable children: an error, or the list
RECURSIVE VarChildren(_, _)
VarChildren(ns, cs) ==
    IF cs = <<>> THEN [err |-> "none", list |-> <<>>]
    ELSE LET v == isVariableEndpoint(ns, Head(cs))
             r == VarChildren(ns, Tail(cs))
         IN IF v = "IndexError" THEN [err |-> "IndexError", list |-> <<>>]
            ELSE IF r.err # "none" THEN r
            ELSE [err |-> "none",
                  list |-> IF v = "yes" THEN <<Head(cs)>> \o r.list ELSE r.list]

\* list.remove(x)
RECURSIVE Remove(_, _)
Remove(list, x) ==
    IF list = <<>> THEN <<>>
    ELSE IF Head(list) = x THEN Tail(list)
    ELSE <<Head(list)>> \o Remove(Tail(list), x)

\* _parentsUpToExprEndpoint then className of each: an error or none
RECURSIVE ParentsUpToExpr(_, _)
ParentsUpToExpr(ns, curr) ==
    IF curr = 0 THEN "none"
    ELSE IF isVariableEndpoint(ns, curr) = "IndexError" THEN "IndexError"
    ELSE IF className(ns, curr).err # "none" THEN className(ns, curr).err
    ELSE IF isVariableEndpoint(ns, curr) = "yes" THEN "none"
    ELSE ParentsUpToExpr(ns, ns[curr].parent)

genParentsFromExprAncestorStr(ns, n) == ParentsUpToExpr(ns, ns[n].parent)

GenErr(e, taken) == [err |-> e, taken |-> taken, emitted |-> <<>>]

\* the assertion on the Variable children of a node on the Expression path
ExpressionAssert_soleChild(ns, n, varList) ==
    Len(varList) = 1 /\ Len(children(ns, n)) = 1

ExpressionAssert(ns, n, varList) == Len(varList) = 1

\* the assertion on the Variable child of a node on the Expression path:
\* "AssertionError", "IndexError" or "none"
VarChildAssert_dropped(ns, varChild) == "none"

VarChildAssert(ns, varChild) ==
    LET e == isExpressionEndpoint(ns, varChild) IN
    IF e = "IndexError" THEN "IndexError"
    ELSE IF e = "yes" THEN "AssertionError" ELSE "none"

\* the dispatch of _genEndpointAndChildren: which emission path a node takes
Dispatch(ns, n) ==
    LET e == isExpressionEndpoint(ns, n) IN
    IF e = "IndexError" THEN "IndexError"
    ELSE IF e = "yes" THEN "Expression" ELSE "Fixed"

\* _genSchemaInResponseStr(method) keys a dict by each path descriptor: a
\* descriptor with a slice cannot be hashed where slices are not hashable
\* (before Python 3.12)
genSchemaInResponseStr(w, method) ==
    LET byCode == w.methods[method].responseSchemasByCode IN
    IF \E c \in 1..Len(byCode) : \E e \in 1..Len(byCode[c].v) :
          \E i \in 1..Len(byCode[c].v[e].path) :
             byCode[c].v[e].path[i].key.kind = "slice" /\ ~w.sliceHashable
    THEN "TypeError" ELSE "none"

\* _genSchemaInResponseGettersStr(endpoint): the five verbs it looks for
genSchemaInResponseGettersStr(w, n) ==
    LET md == w.nodes[n].methodsDict IN
    IF \E i \in 1..Len(md) :
          /\ md[i].k \in {<<"get">>, <<"delete">>, <<"patch">>, <<"post">>, <<"put">>}
          /\ genSchemaInResponseStr(w, md[i].v) # "none"
    THEN "TypeError" ELSE "none"

\* the end of each emission path: parentRef, the response-schema getters, then
\* endpoint.className and the template; kids is the result of generating the
\* children
Finish(w, n, kind, kids) ==
    IF kids.err # "none" THEN kids
    ELSE IF genParentsFromExprAncestorStr(w.nodes, n) # "none"
         THEN GenErr(genParentsFromExprAncestorStr(w.nodes, n), kids.taken)
    ELSE IF genSchemaInResponseGettersStr(w, n) # "none"
         THEN GenErr(genSchemaInResponseGettersStr(w, n), kids.taken)
    ELSE IF className(w.nodes, n).err # "none" THEN GenErr(className(w.nodes, n).err, kids.taken)
    ELSE [err |-> "none", taken |-> kids.taken,
          emitted |-> Append(kids.emitted, [node |-> n, kind |-> kind])]

RECURSIVE genEndpoints(_, _, _)
RECURSIVE genEndpointAndChildren(_, _, _)
RECURSIVE genFixedEndpointAndChildren(_, _, _)
RECURSIVE genVariableEndpointAndChildren(_, _, _)
RECURSIVE genExpressionEndpointAndChildren(_, _, _)

\* Each takes the log of emission paths taken so far and returns
\* [err, taken, emitted]: emitted lists the classes of the returned text.
genEndpoints(w, endpoints, taken) ==
    IF endpoints = <<>> THEN [err |-> "none", taken |-> taken, emitted |-> <<>>]
    ELSE LET h == genEndpointAndChildren(w, Head(endpoints), taken) IN
         IF h.err # "none" THEN h
         ELSE LET t == genEndpoints(w, Tail(endpoints), h.taken) IN
              IF t.err # "none" THEN t
              ELSE [err |-> "none", taken |-> t.taken, emitted |-> h.emitted \o t.emitted]

genEndpointAndChildren(w, n, taken) ==
    LET d == Dispatch(w.nodes, n) IN
    IF d = "IndexError" THEN GenErr("IndexError", taken)
    ELSE IF d = "Expression" THEN genExpressionEndpointAndChildren(w, n, taken)
    ELSE genFixedEndpointAndChildren(w, n, taken)

genFixedEndpointAndChildren(w, n, taken) ==
    Finish(w, n, "Fixed",
           genEndpoints(w, children(w.nodes, n), Append(taken, [node |-> n, kind |-> "Fixed"])))

genVariableEndpointAndChildren(w, n, taken) ==
    Finish(w, n, "Variable",
           genEndpoints(w, children(w.nodes, n), Append(taken, [node |-> n, kind |-> "Variable"])))

genExpressionEndpointAndChildren(w, n, taken) ==
    LET taken1 == Append(taken, [node |-> n, kind |-> "Expression"])
        vc     == VarChildren(w.nodes, children(w.nodes, n))
    IN IF vc.err # "none" THEN GenErr(vc.err, taken1)
       ELSE IF ~ExpressionAssert(w.nodes, n, vc.list) THEN GenErr("AssertionError", taken1)
       ELSE IF VarChildAssert(w.nodes, vc.list[1]) # "none"
            THEN GenErr(VarChildAssert(w.nodes, vc.list[1]), taken1)
       ELSE LET var == genVariableEndpointAndChildren(w, vc.list[1], taken1) IN
            IF var.err # "none" THEN var
            ELSE LET rest == genEndpoints(w, Remove(children(w.nodes, n), vc.list[1]), var.taken)
                 IN Finish(w, n, "Expression",
                           IF rest.err # "none" THEN rest
                           ELSE [err |-> "none", taken |-> rest.taken,
                                 emitted |-> var.emitted \o rest.emitted])

-----------------------------------------------------------------------------
(* Inputs of the generator specification                                   *)

SegU == <<"u">>
SegA == <<"a">>
SegI == <<"{", "i", "}">>
SegJ == <<"{", "j", "}">>

RECURSIVE JoinSlash(_)
JoinSlash(segs) ==
    IF segs = <<>> THEN <<>> ELSE <<"/">> \o Head(segs) \o JoinSlash(Tail(segs))

GenPathUrls ==
    {JoinSlash(segs) : segs \in
        { <<SegU>>, <<SegU, SegI>>, <<SegU, SegJ>>, <<SegU, SegA>>,
          <<SegU, SegA, SegI>>, <<SegU, SegI, SegJ>>, <<SegU, SegI, SegA>>,
          <<SegI>>, <<SegI, SegJ>>, <<SegU, <<>>>> }}

\* parser.endpoints handed to _EndpointWriter._genEndpoints
GenEndpoints ==
    /\ ~genResult.called
    /\ lastRec.count > 0
    /\ genResult' = LET g == genEndpoints([nodes |-> nodes, methods |-> methods,
                                            sliceHashable |-> TRUE],
                                           DictValues(endpointsDict), <<>>)
                     IN [err |-> g.err, taken |-> g.taken, emitted |-> g.emitted,
                         called |-> TRUE]
    /\ UNCHANGED <<pathLog, concVars, callVars, nodes, endpointsDict, methods, lastRec, recorded, apiVars, runVars>>

NextGen ==
    \/ \E pathUrl \in GenPathUrls :
          /\ lastRec.count < MaxGenRecords
          /\ ~genResult.called
          /\ RecordMethod(pathUrl, <<"get">>)
    \/ GenEndpoints

SpecGen == Init /\ [][NextGen]_vars


-----------------------------------------------------------------------------
(* JSON values of the spec document.  A Python str is a sequence of atoms  *)
(* ("/" is an atom of its own, so that split("/") is computed); a dict is  *)
(* its items in insertion order, keyed by strs; an object of the document  *)
(* is referred to by its location, the keys from the root, so that         *)
(* Python's "is" is equality of locations.                                 *)

JStr(str) == [kind |-> "str", s |-> str, items |-> <<>>]

JDict(items) == [kind |-> "dict", s |-> <<>>, items |-> items]

JList(items) == [kind |-> "list", s |-> <<>>, items |-> items]

JNone == [kind |-> "none", s |-> <<>>, items |-> <<>>]

KV(key, val) == [k |-> <<key>>, v |-> val]

RECURSIVE At(_, _)
At(v, loc) == IF loc = <<>> THEN v ELSE At(DictGet(v.items, Head(loc)), Tail(loc))

\* obj[key] for a str key: the value, or the exception Python raises
Index(v, key) ==
    IF v.kind = "dict"
    THEN IF DictHas(v.items, key) THEN [err |-> "none", val |-> DictGet(v.items, key)]
         ELSE [err |-> "KeyError", val |-> JNone]
    ELSE [err |-> "TypeError", val |-> JNone]

\* obj.get(key, default)
Get(v, key, default) ==
    IF v.kind # "dict" THEN [err |-> "AttributeError", val |-> JNone]
    ELSE [err |-> "none", val |-> IF DictHas(v.items, key) THEN DictGet(v.items, key)
                                   ELSE default]

-----------------------------------------------------------------------------
(* Parser_3_1_0._evalRefObj and _evalRefsAndGetValue                       *)

MaxRefDepth == 9

Loc(l) == [err |-> "none", loc |-> l]

LocErr(e) == [err |-> e, loc |-> <<>>]

RECURSIVE evalRefObj(_, _, _)
RECURSIVE evalRefsAndGetValue(_, _, _, _)
RECURSIVE ResolveLoop(_, _, _, _)

\* _evalRefObj(refObj): the object at loc itself, or the target of its $ref
evalRefObj(doc, loc, fuel) ==
    LET refObj == At(doc, loc) IN
    IF refObj.kind = "dict" /\ DictHas(refObj.items, <<"$ref">>)
    THEN LET refPath == DictGet(refObj.items, <<"$ref">>) IN
         IF refPath.kind # "str" THEN LocErr("AttributeError")
         ELSE IF Head(Split(refPath.s)) # <<"#">> THEN LocErr("AssertionError")
         ELSE IF fuel = 0 THEN LocErr("RecursionError")
         ELSE evalRefsAndGetValue(doc, <<>>, Tail(Split(refPath.s)), fuel - 1)
    ELSE Loc(loc)

\* the loop "while lastSpecObjectWasRefObject": it never ends once it comes
\* back to an object it has resolved before
ResolveLoop(doc, curr, seen, fuel) ==
    LET r == evalRefObj(doc, curr, fuel) IN
    IF r.err # "none" THEN r
    ELSE IF r.loc = curr THEN Loc(curr)
    ELSE IF r.loc \in seen THEN LocErr("NeverReturns")
    ELSE ResolveLoop(doc, r.loc, seen \cup {curr}, fuel)

evalRefsAndGetValue(doc, curr, specKeyPath, fuel) ==
    IF specKeyPath = <<>> THEN Loc(curr)
    ELSE LET c == IF At(doc, curr).kind = "dict" THEN ResolveLoop(doc, curr, {}, fuel)
                  ELSE Loc(curr)
         IN IF c.err # "none" THEN c
            ELSE IF Index(At(doc, c.loc), Head(specKeyPath)).err # "none"
                 THEN LocErr(Index(At(doc, c.loc), Head(specKeyPath)).err)
            ELSE IF fuel = 0 THEN LocErr("RecursionError")
            ELSE evalRefsAndGetValue(doc, Append(c.loc, Head(specKeyPath)),
                                     Tail(specKeyPath), fuel - 1)

-----------------------------------------------------------------------------
(* Parser.Server, Parser.Schema, Parser.SchemaProperty and the recorders   *)

Server_keepSlash(name, url, desc) ==
    [err |-> IF url = <<>> THEN "IndexError" ELSE "none", name |-> name, url |-> url,
     desc |-> desc]

\* Server.__init__: url[-1] of the empty url raises IndexError
Server(name, url, desc) ==
    IF url = <<>> THEN [err |-> "IndexError", name |-> name, url |-> url, desc |-> desc]
    ELSE [err |-> "none", name |-> name,
          url |-> IF url[Len(url)] # "/" THEN url ELSE SubSeq(url, 1, Len(url) - 1),
          desc |-> desc]

SchemaProperty(name, desc) == [name |-> name, desc |-> desc]

Schema(name, desc) == [name |-> name, desc |-> desc, properties |-> <<>>]

addProp_keepFirst(schema, prop) ==
    IF DictHas(schema.properties, prop.name) THEN schema
    ELSE [schema EXCEPT !.properties = DictSet(@, prop.name, prop)]

\* Schema.addProp(prop)
addProp(schema, prop) == [schema EXCEPT !.properties = DictSet(@, prop.name, prop)]

\* _recordSchemaProperty on the registry sd (__schemaDict)
recordSchemaProperty(sd, schemaName, schemaDesc, prop) ==
    LET sd1 == IF ~DictHas(sd, schemaName)
               THEN DictSet(sd, schemaName, Schema(schemaName, schemaDesc))
               ELSE sd
    IN DictSet(sd1, schemaName, addProp(DictGet(sd1, schemaName), prop))

\* int(responseCodeStr)
IntOf(str) ==
    CASE str = <<"200">> -> [err |-> "none", int |-> 200]
      [] str = <<"201">> -> [err |-> "none", int |-> 201]
      [] str = <<"404">> -> [err |-> "none", int |-> 404]
      [] OTHER -> [err |-> "ValueError", int |-> 0]

addSchemaToResponseJson_noPath(ms, method, responseCode, specKeyPathDescriptor, schemaClassRefStr) ==
    [ms EXCEPT ![method].responseSchemasByCode =
        DictSet(@, responseCode,
                Append(IF DictHas(@, responseCode) THEN DictGet(@, responseCode) ELSE <<>>,
                       [path |-> <<>>, schema |-> schemaClassRefStr]))]

\* Method._addSchemaToResponseJson on the Method heap ms
addSchemaToResponseJson(ms, method, responseCode, specKeyPathDescriptor, schemaClassRefStr) ==
    LET byCode == ms[method].responseSchemasByCode
        old    == IF DictHas(byCode, responseCode) THEN DictGet(byCode, responseCode)
                  ELSE <<>>
    IN [ms EXCEPT ![method].responseSchemasByCode =
            DictSet(byCode, responseCode,
                    Append(old, [path |-> specKeyPathDescriptor,
                                 schema |-> schemaClassRefStr]))]

\* _recordResponseSchema: [err, methods]
recordResponseSchema(ms, method, responseCodeStr, specKeyPathDescriptor, schemaClassRefStr) ==
    IF IntOf(responseCodeStr).err # "none"
    THEN [err |-> IntOf(responseCodeStr).err, methods |-> ms]
    ELSE [err |-> "none",
          methods |-> addSchemaToResponseJson(ms, method, IntOf(responseCodeStr).int,
                                              specKeyPathDescriptor, schemaClassRefStr)]

-----------------------------------------------------------------------------
(* Parser_3_1_0._scanForSchemaRefs and _scanAndEvalOpenApiObj              *)

\* a step of a path descriptor: ('object', key) or ('array', slice(None))
ObjectStep(key) == [type |-> "object", key |-> [kind |-> "str", s |-> key, i |-> 0]]

ArrayAllStep == [type |-> "array", key |-> [kind |-> "slice", s |-> <<>>, i |-> 0]]

ArrayIndexStep(idx) == [type |-> "array", key |-> [kind |-> "int", s |-> <<>>, i |-> idx]]

RECURSIVE scanForSchemaRefs(_, _, _, _, _, _, _)
RECURSIVE scanAndEvalOpenApiObj(_, _, _, _, _, _, _)
RECURSIVE ScanProperties(_, _, _, _, _, _, _, _)

\* the loop over currSpecObject['properties'].items(), from the i-th item
ScanProperties(doc, ms, method, responseCode, propsLoc, i, descriptor, fuel) ==
    LET props == At(doc, propsLoc).items IN
    IF i > Len(props) THEN [err |-> "none", methods |-> ms]
    ELSE LET r == scanForSchemaRefs(doc, ms, method, responseCode,
                                    Append(propsLoc, props[i].k),
                                    Append(descriptor, ObjectStep(props[i].k)), fuel)
         IN IF r.err # "none" THEN r
            ELSE ScanProperties(doc, r.methods, method, responseCode, propsLoc, i + 1,
                                descriptor, fuel)

scanAndEvalOpenApiObj(doc, ms, method, responseCode, loc, descriptor, fuel) ==
    LET r == evalRefObj(doc, loc, MaxRefDepth) IN
    IF r.err # "none" THEN [err |-> r.err, methods |-> ms]
    ELSE LET obj == At(doc, r.loc)
             objectType == Get(obj, <<"type">>, JNone)
         IN IF objectType.err # "none" THEN [err |-> objectType.err, methods |-> ms]
            ELSE IF objectType.val.kind = "str" /\ objectType.val.s = <<"object">>
            THEN IF Index(obj, <<"properties">>).err # "none"
                 THEN [err |-> Index(obj, <<"properties">>).err, methods |-> ms]
                 ELSE IF Index(obj, <<"properties">>).val.kind # "dict"
                 THEN [err |-> "AttributeError", methods |-> ms]
                 ELSE ScanProperties(doc, ms, method, responseCode,
                                     Append(r.loc, <<"properties">>), 1, descriptor, fuel)
            ELSE IF objectType.val.kind = "str" /\ objectType.val.s = <<"array">>
            THEN IF Index(obj, <<"items">>).err # "none"
                 THEN [err |-> Index(obj, <<"items">>).err, methods |-> ms]
                 ELSE scanForSchemaRefs(doc, ms, method, responseCode,
                                        Append(r.loc, <<"items">>),
                                        Append(descriptor, ArrayAllStep), fuel)
            ELSE IF objectType.val.kind = "str"
                    /\ objectType.val.s \in {<<"string">>, <<"number">>, <<"integer">>,
                                             <<"boolean">>}
            THEN [err |-> "none", methods |-> ms]
            ELSE [err |-> "ValueError", methods |-> ms]

scanForSchemaRefs(doc, ms, method, responseCode, loc, descriptor, fuel) ==
    LET r == evalRefObj(doc, loc, MaxRefDepth)
        refPathKeys == Split(DictGet(At(doc, loc).items, <<"$ref">>).s)
    IN IF r.err # "none" THEN [err |-> r.err, methods |-> ms]
       ELSE IF fuel = 0 THEN [err |-> "RecursionError", methods |-> ms]
       ELSE IF r.loc # loc /\ Len(refPathKeys) < 3 THEN [err |-> "IndexError", methods |-> ms]
       ELSE IF r.loc # loc /\ refPathKeys[3] = <<"schemas">>
       THEN recordResponseSchema(ms, method, responseCode, descriptor,
                                 refPathKeys[Len(refPathKeys)])
       ELSE scanAndEvalOpenApiObj(doc, ms, method, responseCode, loc, descriptor, fuel - 1)

-----------------------------------------------------------------------------
(* Parser_3_1_0.parse: each loop is an operator on the parser state        *)
(* ps = [err, servers, schemaDict, nodes, endpointsDict, methods]          *)

NewParser == [err |-> "none", servers |-> <<>>, schemaDict |-> <<>>,
              nodes |-> <<>>, endpointsDict |-> <<>>, methods |-> <<>>]

Fail(ps, e) == [ps EXCEPT !.err = e]

\* url[-1] of a url that is no str: None is not subscriptable, a dict has no
\* key -1, an empty list no last element
UrlIndexError(url) ==
    CASE url.kind = "str"  -> IF url.s = <<>> THEN "IndexError" ELSE "none"
      [] url.kind = "dict" -> "KeyError"
      [] url.kind = "list" -> IF url.items = <<>> THEN "IndexError" ELSE "none"
      [] OTHER -> "TypeError"

\* the loop over serverList, from the idx-th server
RECURSIVE ParseServers(_, _, _)
ParseServers(ps, serverList, idx) ==
    IF idx > Len(serverList) THEN ps
    ELSE LET server == serverList[idx]
             d == Index(server, <<"description">>)
             u == Index(server, <<"url">>)
             name == IF d.val.kind = "str" /\ d.val.s # <<>> THEN d.val.s
                     ELSE <<"NO_NAME_FOUND_", ToString(idx)>>
         IN IF d.err # "none" THEN Fail(ps, d.err)
            ELSE IF u.err # "none" THEN Fail(ps, u.err)
            ELSE IF UrlIndexError(u.val) # "none" THEN Fail(ps, UrlIndexError(u.val))
            ELSE ParseServers(
                     [ps EXCEPT !.servers =
                         Append(@, Server(name, u.val.s,
                                          <<"Your description for '">> \o name
                                              \o <<"' here">>))],
                     serverList, idx + 1)

\* the loop over schemaData['properties'].items(), from the i-th property
RECURSIVE ParseProperties(_, _, _, _, _)
ParseProperties(ps, schemaName, schemaData, props, i) ==
    IF i > Len(props) THEN ps
    ELSE LET propDesc   == Get(props[i].v, <<"description">>, JStr(<<>>))
             schemaDesc == Get(schemaData, <<"description">>, JStr(<<>>))
         IN IF propDesc.err # "none" THEN Fail(ps, propDesc.err)
            ELSE IF propDesc.val.kind # "str" THEN Fail(ps, "AssertionError")
            ELSE IF schemaDesc.val.kind # "str" THEN Fail(ps, "AssertionError")
            ELSE ParseProperties(
                     [ps EXCEPT !.schemaDict =
                         recordSchemaProperty(@, schemaName, schemaDesc.val.s,
                                              SchemaProperty(props[i].k, propDesc.val.s))],
                     schemaName, schemaData, props, i + 1)

\* the loop over components.schemas.items(), from the i-th schema
RECURSIVE ParseSchemas(_, _, _)
ParseSchemas(ps, schemas, i) ==
    IF i > Len(schemas) THEN ps
    ELSE LET props == Index(schemas[i].v, <<"properties">>) IN
         IF props.err # "none" THEN Fail(ps, props.err)
         ELSE IF props.val.kind # "dict" THEN Fail(ps, "AttributeError")
         ELSE LET Next(ps1) == IF ps1.err # "none" THEN ps1
                               ELSE ParseSchemas(ps1, schemas, i + 1)
              IN Next(ParseProperties(ps, schemas[i].k, schemas[i].v, props.val.items, 1))

\* _genEndpointDesc(methodData)
genEndpointDesc(methodData) ==
    LET summary == Index(methodData, <<"summary">>)
        wrappedDesc == Index(methodData, <<"description">>)
    IN IF summary.err # "none" THEN [err |-> summary.err, str |-> <<>>]
       ELSE IF wrappedDesc.err # "none" THEN [err |-> wrappedDesc.err, str |-> <<>>]
       ELSE [err |-> "none", str |-> summary.val.s \o <<"\n\n">> \o wrappedDesc.val.s]

\* the loop over methodData['responses'].items(), from the i-th response; a
\* KeyError of _evalRefsAndGetValue skips the response
RECURSIVE ParseResponses(_, _, _, _, _, _)
ParseResponses(doc, ps, method, responsesLoc, responses, i) ==
    IF i > Len(responses) THEN ps
    ELSE LET Scanned(sc) ==
                 IF sc.err # "none" THEN Fail([ps EXCEPT !.methods = sc.methods], sc.err)
                 ELSE ParseResponses(doc, [ps EXCEPT !.methods = sc.methods], method,
                                     responsesLoc, responses, i + 1)
             Evaluated(r) ==
                 IF r.err = "KeyError"
                 THEN ParseResponses(doc, ps, method, responsesLoc, responses, i + 1)
                 ELSE IF r.err # "none" THEN Fail(ps, r.err)
                 ELSE Scanned(scanForSchemaRefs(doc, ps.methods, method, responses[i].k,
                                                r.loc, <<>>, MaxRefDepth))
         IN Evaluated(evalRefsAndGetValue(doc, Append(responsesLoc, responses[i].k),
                          << <<"content">>, <<"application/json">>, <<"schema">> >>,
                          MaxRefDepth))

\* the loop over path.items(), from the i-th (method, methodData)
RECURSIVE ParseMethods(_, _, _, _, _, _)
ParseMethods(doc, ps, pathUrl, pathLoc, items, i) ==
    IF i > Len(items) THEN ps
    ELSE IF items[i].k = <<"parameters">>
    THEN ParseMethods(doc, ps, pathUrl, pathLoc, items, i + 1)
    ELSE LET methodData == items[i].v
             responses == Index(methodData, <<"responses">>)
             Next(ps2) == IF ps2.err # "none" THEN ps2
                          ELSE ParseMethods(doc, ps2, pathUrl, pathLoc, items, i + 1)
             Recorded(ps1, method, err) ==
                 IF err # "none" THEN Fail(ps1, err)
                 ELSE IF responses.err # "none" THEN Fail(ps1, responses.err)
                 ELSE IF responses.val.kind # "dict" THEN Fail(ps1, "AttributeError")
                 ELSE Next(ParseResponses(doc, ps1, method,
                                          pathLoc \o <<items[i].k, <<"responses">>>>,
                                          responses.val.items, 1))
             Record(ms, rec) ==
                 Recorded([ps EXCEPT !.nodes = rec.nodes,
                                     !.endpointsDict = rec.endpointsDict, !.methods = ms],
                          Len(ms), rec.err)
             Described(desc, ms) ==
                 IF desc.err # "none" THEN Fail(ps, desc.err)
                 ELSE Record(ms, recordMethod(ps.nodes, ps.endpointsDict, ms, pathUrl, Len(ms)))
             Describe(desc) ==
                 Described(desc, Append(ps.methods, Method(items[i].k, desc.str)))
         IN Describe(genEndpointDesc(methodData))

\* the loop over paths.items(), from the i-th (pathUrl, path)
RECURSIVE ParsePaths(_, _, _, _)
ParsePaths(doc, ps, paths, i) ==
    IF i > Len(paths) THEN ps
    ELSE IF paths[i].v.kind # "dict" THEN Fail(ps, "AttributeError")
    ELSE LET Next(ps1) == IF ps1.err # "none" THEN ps1 ELSE ParsePaths(doc, ps1, paths, i + 1)
         IN Next(ParseMethods(doc, ps, paths[i].k, <<<<"paths">>, paths[i].k>>,
                              paths[i].v.items, 1))

\* Parser_3_1_0.parse(openApiSpecDict) on a fresh parser
parse(doc) ==
    LET ps0 == NewParser
        openapi    == Index(doc, <<"openapi">>)
        serverList == Index(doc, <<"servers">>)
        components == Index(doc, <<"components">>)
        schemas    == Index(components.val, <<"schemas">>)
        paths == Index(doc, <<"paths">>)
        \* lines 309-322, ps2 the parser after the schemas
        Paths(ps2) ==
            IF ps2.err # "none" THEN ps2
            ELSE IF paths.err # "none" THEN Fail(ps2, paths.err)
            ELSE IF paths.val.kind # "dict" THEN Fail(ps2, "AttributeError")
            ELSE ParsePaths(doc, ps2, paths.val.items, 1)
        \* lines 304-307, ps1 the parser after the servers
        Schemas(ps1) ==
            IF ps1.err # "none" THEN ps1
            ELSE IF components.err # "none" THEN Fail(ps1, components.err)
            ELSE IF schemas.err # "none" THEN Fail(ps1, schemas.err)
            ELSE IF schemas.val.kind # "dict" THEN Fail(ps1, "AttributeError")
            ELSE Paths(ParseSchemas(ps1, schemas.val.items, 1))
    IN IF doc.kind # "dict" THEN Fail(ps0, "AssertionError")
       ELSE IF openapi.err # "none" THEN Fail(ps0, openapi.err)
       ELSE IF ~(openapi.val.kind = "str" /\ openapi.val.s = <<"3.1.0">>)
            THEN Fail(ps0, "AssertionError")
       ELSE IF serverList.err # "none" THEN Fail(ps0, serverList.err)
       ELSE IF serverList.val.kind # "list" THEN Fail(ps0, "TypeError")
       ELSE Schemas(ParseServers(ps0, serverList.val.items, 1))

-----------------------------------------------------------------------------
(* _EndpointWriter's writes and generateAPI.  The text of the file is the  *)
(* sequence of the chunks written to it.                                   *)

Chunk(name, body) == [chunk |-> name, body |-> body]

\* writeServers: one registerServer statement per server
ServersChunk(serverSeq) ==
    Chunk("servers", [i \in 1..Len(serverSeq) |->
                         [name |-> serverSeq[i].name, url |-> serverSeq[i].url,
                          desc |-> serverSeq[i].desc]])

\* repr() of the Python set propDefNames: the names in the order of the
\* interpreter's hashing, given as a sequence hashOrder; a name hashOrder does
\* not place belongs to a set of one name, which prints in one way
SetRepr(names, hashOrder) ==
    LET placed == {hashOrder[i] : i \in 1..Len(hashOrder)}
    IN SelectSeq(hashOrder, LAMBDA x : x \in names)
       \o (IF names \ placed = {} THEN <<>> ELSE <<CHOOSE x \in names \ placed : TRUE>>)

\* _genSchemaModel(model): _propNames, and the parameters in insertion order
genSchemaModel(model, hashOrder) ==
    [name |-> model.name, desc |-> model.desc,
     propDefNames |-> SetRepr(DictKeys(model.properties), hashOrder),
     propDefsParams |-> [i \in 1..Len(model.properties) |-> model.properties[i].k]]

\* _genSchema(schema)
genSchema(schemaSeq, hashOrder) ==
    [i \in 1..Len(schemaSeq) |-> genSchemaModel(schemaSeq[i], hashOrder)]

LastThree(str) == SubSeq(str, IF Len(str) > 3 THEN Len(str) - 2 ELSE 1, Len(str))

\* the file opened for writing: created, or truncated
CreateApiFile == [exists |-> TRUE, text |-> <<>>]

Write(file, chunk) == [file EXCEPT !.text = Append(@, chunk)]

\* writeEndpoints writes _endpointGlobals, then the generated classes
writeEndpoints(file, g) ==
    IF g.err # "none" THEN Write(file, Chunk("endpointGlobals", <<>>))
    ELSE Write(Write(file, Chunk("endpointGlobals", <<>>)), Chunk("endpoints", g.emitted))

\* generateAPI(ParserClass, openApiFilePath, apiOutputPath): doc is the JSON of
\* the file at openApiFilePath, file the file at apiOutputPath before the call
generateAPI(parserClass, doc, apiOutputPath, file, sliceHashable, hashOrder) ==
    LET f1 == Write(CreateApiFile, Chunk("imports", <<>>))
        \* lines 23-25: f3 the file after writeEndpoints, g the generated classes
        WriteSchema(ps, f3, g) ==
            IF g.err # "none" THEN [err |-> g.err, file |-> f3, ps |-> ps]
            ELSE [err |-> "none", ps |-> ps,
                  file |-> Write(Write(f3, Chunk("schemaGlobals", <<>>)),
                                 Chunk("schema", genSchema(DictValues(ps.schemaDict),
                                                           hashOrder)))]
        WriteEndpoints(ps, f2, g) == WriteSchema(ps, writeEndpoints(f2, g), g)
        \* lines 21-23: ps the parser after parse
        Written(ps) ==
            IF ps.err # "none" THEN [err |-> ps.err, file |-> file, ps |-> ps]
            ELSE WriteEndpoints(ps, Write(f1, ServersChunk(ps.servers)),
                                genEndpoints([nodes |-> ps.nodes, methods |-> ps.methods,
                                              sliceHashable |-> sliceHashable],
                                             DictValues(ps.endpointsDict), <<>>))
    IN IF parserClass # "Parser_3_1_0" THEN [err |-> "TypeError", file |-> file, ps |-> NewParser]
       ELSE IF LastThree(apiOutputPath) # <<".", "p", "y">>
            THEN [err |-> "ValueError", file |-> file, ps |-> NewParser]
       ELSE Written(parse(doc))

-----------------------------------------------------------------------------
(* Inputs of the generateAPI specification: spec documents                 *)

MaxDocPaths == 2

RefStr(section, name) == JStr(<<"#", "/", "components", "/", section, "/", name>>)

RefObj(section, name) == JDict(<<KV("$ref", RefStr(section, name))>>)

TypeObj(type) == JDict(<<KV("type", JStr(<<type>>))>>)

\* the schema of a response body, by kind
BodySchema(kind) ==
    CASE kind = "string"  -> TypeObj("string")
      [] kind = "pet"     -> RefObj("schemas", "Pet")
      [] kind = "objPet"  -> JDict(<<KV("type", JStr(<<"object">>)),
                                     KV("properties",
                                        JDict(<<KV("n", TypeObj("integer")),
                                                KV("pet", RefObj("schemas", "Pet"))>>))>>)
      [] kind = "arrPet"  -> JDict(<<KV("type", JStr(<<"array">>)),
                                     KV("items", RefObj("schemas", "Pet"))>>)
      [] kind = "owner"   -> RefObj("schemas", "Owner")
      [] kind = "nested"  ->
            JDict(<<KV("type", JStr(<<"object">>)),
                    KV("properties",
                       JDict(<<KV("o", JDict(<<KV("type", JStr(<<"object">>)),
                                               KV("properties",
                                                  JDict(<<KV("pet", RefObj("schemas", "Pet")),
                                                          KV("list", JDict(<<KV("type", JStr(<<"array">>)),
                                                                             KV("items", RefObj("schemas", "Owner"))>>))>>))>>))>>))>>)
      [] kind = "badType" -> TypeObj("null")
      [] kind = "ghost"   -> RefObj("schemas", "Ghost")
      [] kind = "node"    -> RefObj("schemas", "Node")
      [] kind = "objNode" -> JDict(<<KV("type", JStr(<<"object">>)),
                                     KV("properties",
                                        JDict(<<KV("head", RefObj("schemas", "Node"))>>))>>)
      [] kind = "empty"   -> RefObj("schemas", "Empty")
      [] kind = "viaA"    ->
            JDict(<<KV("$ref", JStr(<<"#", "/", "components", "/", "schemas", "/", "A",
                                      "/", "properties", "/", "x">>))>>)

BodyKinds == {"string", "pet", "objPet", "arrPet", "owner", "nested", "badType", "ghost"}

\* a response object, by kind: without content, a reference to a response
\* that is not defined, or with a JSON body
ResponseObj(kind) ==
    CASE kind = "noContent"   -> JDict(<<KV("description", JStr(<<"gone">>))>>)
      [] kind = "refMissing"  -> RefObj("responses", "Missing")
      [] OTHER -> JDict(<<KV("description", JStr(<<"ok">>)),
                          KV("content",
                             JDict(<<KV("application/json",
                                        JDict(<<KV("schema", BodySchema(kind))>>))>>))>>)

ResponseKinds == BodyKinds \cup {"noContent", "refMissing"}

PathItem(kind) ==
    JDict(<<KV("parameters", JList(<<>>)),
            KV("get", JDict(<<KV("summary", JStr(<<"s">>)),
                              KV("description", JStr(<<"d">>)),
                              KV("responses", JDict(<<KV("200", ResponseObj(kind))>>))>>))>>)

DocPathUrls == {JoinSlash(<<SegU>>), JoinSlash(<<SegU, SegI>>), JoinSlash(<<SegU, SegJ>>)}

\* the paths objects: up to MaxDocPaths items under distinct urls; the items
\* after the first share their kind of response
PathsOf(urls, kinds) ==
    JDict([i \in 1..Len(urls) |-> [k |-> urls[i], v |-> PathItem(kinds[i])]])

DocPaths ==
    UNION {{PathsOf(urls, kinds) :
               urls \in {u \in [1..n -> DocPathUrls] :
                            \A i, j \in 1..n : i # j => u[i] # u[j]},
               kinds \in {k \in [1..n -> ResponseKinds] :
                            \A i, j \in 2..n : k[i] = k[j]}} : n \in 1..MaxDocPaths}

PetSchema ==
    JDict(<<KV("description", JStr(<<"a pet">>)),
            KV("properties", JDict(<<KV("id", TypeObj("integer")),
                                     KV("name", JDict(<<KV("type", JStr(<<"string">>)),
                                                        KV("description", JStr(<<"its name">>))>>))>>))>>)

\* a schema with a property that is a reference to Pet
OwnerSchema ==
    JDict(<<KV("description", JStr(<<"an owner">>)),
            KV("properties", JDict(<<KV("name", RefObj("schemas", "Pet"))>>))>>)

Components == JDict(<<KV("schemas", JDict(<<KV("Pet", PetSchema), KV("Owner", OwnerSchema)>>))>>)

Doc(version, serverList, paths) ==
    JDict(<<KV("openapi", JStr(<<version>>)), KV("servers", JList(serverList)),
            KV("components", Components), KV("paths", paths)>>)

OneServer == <<JDict(<<KV("url", JStr(<<"https://api.x", "/">>)),
                       KV("description", JStr(<<"prod">>))>>)>>

ServerLists ==
    { <<>>, OneServer,
      <<JDict(<<KV("url", JStr(<<"https://api.y">>)), KV("description", JStr(<<>>))>>)>>,
      <<JDict(<<KV("url", JStr(<<>>)), KV("description", JStr(<<"local">>))>>)>>,
      <<JDict(<<KV("url", JStr(<<"h", "/", "/">>)), KV("description", JStr(<<>>))>>),
        JDict(<<KV("url", JStr(<<"/">>)), KV("description", JStr(<<"root">>))>>)>> }

OnePath == PathsOf(<<JoinSlash(<<SegU>>)>>, <<"objPet">>)

\* schemas with reference cycles, all through named schemas: Node has a
\* property that refers to Node; A and B are references to each other with
\* properties of their own beside the $ref; and a schema without properties
RecursiveComponents ==
    LET x == JDict(<<KV("x", TypeObj("string"))>>)
    IN JDict(<<KV("schemas",
                  JDict(<<KV("Node", JDict(<<KV("properties",
                                                JDict(<<KV("next", RefObj("schemas", "Node"))>>))>>)),
                          KV("A", JDict(<<KV("$ref", RefStr("schemas", "B")),
                                          KV("properties", x)>>)),
                          KV("B", JDict(<<KV("$ref", RefStr("schemas", "A")),
                                          KV("properties", x)>>)),
                          KV("Empty", JDict(<<KV("properties", JDict(<<>>))>>))>>))>>)

RecursiveKinds == {"node", "objNode", "empty", "viaA"}

\* one path whose response body is of one of these kinds, over those schemas
RecursiveDocs ==
    {JDict(<<KV("openapi", JStr(<<"3.1.0">>)), KV("servers", JList(OneServer)),
             KV("components", RecursiveComponents),
             KV("paths", PathsOf(<<JoinSlash(<<SegU>>)>>, <<kind>>))>>) :
        kind \in RecursiveKinds}

\* documents that vary the paths, the servers or the version, and one without
\* the servers key
Docs ==
    {Doc("3.1.0", OneServer, paths) : paths \in DocPaths}
    \cup {Doc(version, serverList, OnePath) :
             version \in {"3.1.0", "3.0.3"}, serverList \in ServerLists}
    \cup {JDict(<<KV("openapi", JStr(<<"3.1.0">>)), KV("components", Components),
                  KV("paths", OnePath)>>)}
    \cup RecursiveDocs

ParserClasses == {"Parser_3_1_0", "dict"}

ApiOutputPaths == {<<"a", "p", "i", ".", "p", "y">>, <<"a", "p", "i">>}

HashOrders == {<< <<"id">>, <<"name">> >>, << <<"name">>, <<"id">> >>}

\* A caller calls generateAPI, and after a run that succeeded may run it once
\* more on the same document and output path, in a new process of the same
\* interpreter.  The interpreter fixes whether slices are hashable; the
\* order in which a set of strs is printed is fixed per process.
GenerateAPI ==
    /\ ~regen.called
    /\ apiCall.called => apiCall.err = "none"
    /\ \E parserClass \in ParserClasses, apiOutputPath \in ApiOutputPaths, doc \in Docs,
          sliceHashable \in BOOLEAN, hashOrder \in HashOrders :
          /\ apiCall.called => /\ parserClass = "Parser_3_1_0"
                               /\ apiOutputPath = apiCall.apiOutputPath
                               /\ doc = apiCall.doc
                               /\ sliceHashable = apiCall.sliceHashable
          /\ LET read == parserClass = "Parser_3_1_0"
                             /\ LastThree(apiOutputPath) = <<".", "p", "y">>
             IN \E r \in {generateAPI(parserClass, doc, apiOutputPath, apiFile,
                                       sliceHashable, hashOrder)} :
                   /\ apiCall' = IF apiCall.called THEN apiCall
                                 ELSE [called |-> TRUE, err |-> r.err,
                                       doc |-> IF read THEN doc ELSE JNone,
                                       apiOutputPath |-> apiOutputPath,
                                       sliceHashable |-> sliceHashable]
                   /\ regen' = IF apiCall.called
                               THEN [called |-> TRUE, err |-> r.err, first |-> apiFile.text]
                               ELSE regen
                   /\ apiFile' = r.file
                   /\ servers' = r.ps.servers
                   /\ schemaDict' = r.ps.schemaDict
                   /\ nodes' = r.ps.nodes
                   /\ endpointsDict' = r.ps.endpointsDict
                   /\ methods' = r.ps.methods
    /\ UNCHANGED <<pathLog, concVars, loaded, net, netLog, resolved, propLog, lastRec, recorded, genResult,
                   runVars>>

NextAPI == GenerateAPI

SpecAPI == Init /\ [][NextAPI]_vars

-----------------------------------------------------------------------------
(* pyblitz.common.Schema and the classes _useSchemaTemplate emits.  A      *)
(* class is [name, props, propNames, loadParams]: props in the order of    *)
(* the parameters of __init__, propNames in the iteration order of the set *)
(* _propNames, loadParams the number of parameters _loadJsonDict takes     *)
(* besides self.  An instance is [cls, fields, filter].                    *)

NoProp == [kind |-> "NoProp", s |-> <<>>, items |-> <<>>]

JNum(n) == [kind |-> "num", s |-> <<n>>, items |-> <<>>]

\* the emitted __init__(self, prop: Any = NoProp, ...), after Schema.__init__
NewSchema(cls, args) ==
    [cls |-> cls,
     fields |-> [i \in 1..Len(cls.props) |-> [k |-> cls.props[i], v |-> args[i]]],
     filter |-> <<>>]

\* an instance as a value held by a JSON body
InBody(self) == [kind |-> "schema", s |-> self.cls.name, items |-> self.fields]

IsProvided_notNone(propVal) == propVal # NoProp /\ propVal.kind # "none"

\* "if propVal is not pyblitz.Schema.NoProp"
IsProvided(propVal) == propVal # NoProp

\* the emitted _serialize
serialize_(self) ==
    LET names == SelectSeq(self.cls.propNames,
                           LAMBDA propName : IsProvided(DictGet(self.fields, propName)))
    IN [i \in 1..Len(names) |-> [k |-> names[i], v |-> DictGet(self.fields, names[i])]]

InFilter(filter, key) == \E i \in 1..Len(filter) : filter[i] = key

\* Schema.serialize
serialize(self, ignoreFilter) ==
    LET serialDict == serialize_(self)
        shouldFilter == ~ignoreFilter /\ Len(self.filter) > 0
    IN IF shouldFilter
       THEN SelectSeq(serialDict, LAMBDA item : InFilter(self.filter, item.k))
       ELSE serialDict

\* Schema.serialFilter(*paramsToUse)
serialFilter(self, paramsToUse) == [self EXCEPT !.filter = paramsToUse]

RECURSIVE LoadItems(_, _, _, _)
\* the loop of the emitted _loadJsonDict over jsonDict.items(), from the i-th
LoadItems(self, items, i, looseChecking) ==
    IF i > Len(items) THEN [err |-> "none", self |-> self]
    ELSE IF InFilter(self.cls.propNames, items[i].k)
         THEN LoadItems([self EXCEPT !.fields = DictSet(self.fields, items[i].k, items[i].v)],
                        items, i + 1, looseChecking)
    ELSE IF ~looseChecking THEN [err |-> "KeyError", self |-> self]
    ELSE LoadItems(self, items, i + 1, looseChecking)

\* the emitted _loadJsonDict(self, jsonDict, looseChecking)
loadJsonDict(self, jsonDict, looseChecking) ==
    IF jsonDict.kind # "dict" THEN [err |-> "AttributeError", self |-> self]
    ELSE LoadItems(self, jsonDict.items, 1, looseChecking)

\* Schema.fromSerialized: cls() and self._loadJsonDict(jsonDict), one argument.
\* A class whose _loadJsonDict takes the parameters the base class declares
\* runs the loop without loose mode.
fromSerialized(cls, jsonDict) ==
    LET self == NewSchema(cls, [i \in 1..Len(cls.props) |-> NoProp]) IN
    IF cls.loadParams # 1 THEN [err |-> "TypeError", self |-> self]
    ELSE loadJsonDict(self, jsonDict, FALSE)

-----------------------------------------------------------------------------
(* http.responses.Response.  The body is a tree without sharing, so an     *)
(* item of it is referred to by its location: the keys from the root.  A   *)
(* key is the key of a descriptor step: a str, an int or slice(None).      *)

StrKey(key) == [kind |-> "str", s |-> key, i |-> 0]

IntKey(idx) == [kind |-> "int", s |-> <<>>, i |-> idx]

\* the position in a sequence of length n that Python's index idx names
Pos(idx, n) == IF idx >= 0 THEN idx + 1 ELSE n + idx + 1

RECURSIVE ItemAt(_, _)
ItemAt(v, loc) ==
    IF loc = <<>> THEN v
    ELSE IF v.kind = "list"
         THEN ItemAt(v.items[Pos(Head(loc).i, Len(v.items))], Tail(loc))
         ELSE ItemAt(DictGet(v.items, Head(loc).s), Tail(loc))

RECURSIVE SetItem(_, _, _)
\* the body after the item at loc has been assigned
SetItem(v, loc, new) ==
    IF loc = <<>> THEN new
    ELSE IF v.kind = "list"
         THEN LET p == Pos(Head(loc).i, Len(v.items))
              IN [v EXCEPT !.items[p] = SetItem(v.items[p], Tail(loc), new)]
         ELSE LET k == Head(loc).s
                  old == IF DictHas(v.items, k) THEN DictGet(v.items, k) ELSE JNone
              IN [v EXCEPT !.items = DictSet(v.items, k, SetItem(old, Tail(loc), new))]

\* jsonItem[key]: [err, val]
Subscript(c, v, key) ==
    LET ok(val) == [err |-> "none", val |-> val]
        raise(e) == [err |-> e, val |-> JNone]
        n == IF v.kind = "str" THEN Len(v.s) ELSE Len(v.items)
    IN CASE v.kind = "dict" ->
              IF key.kind = "str"
              THEN IF DictHas(v.items, key.s) THEN ok(DictGet(v.items, key.s))
                   ELSE raise("KeyError")
              ELSE IF key.kind = "slice" /\ ~c.sliceHashable THEN raise("TypeError")
              ELSE raise("KeyError")
         [] v.kind \in {"list", "str"} ->
              IF key.kind = "slice" THEN ok(v)
              ELSE IF key.kind # "int" THEN raise("TypeError")
              ELSE IF Pos(key.i, n) \notin 1..n THEN raise("IndexError")
              ELSE IF v.kind = "list" THEN ok(v.items[Pos(key.i, n)])
              ELSE ok(JStr(<<v.s[Pos(key.i, n)]>>))
         [] OTHER -> raise("TypeError")

\* the cause recorded under '__schema_deserialization_failed'
FailedMarker == <<"__schema_deserialization_failed">>

Cause(err) == JDict(<<KV("cause", JStr(<<err>>))>>)

\* Response._deserializeSchema(jsonItem, keyToSchema, schemaClass), jsonItem
\* the item at loc: [err, body]
deserializeSchema(c, body, loc, keyToSchema, schemaClass) ==
    LET jsonItem == ItemAt(body, loc)
        read == Subscript(c, jsonItem, keyToSchema)
        made == fromSerialized(schemaClass, read.val)
        at   == Append(loc, keyToSchema)
    IN \* a KeyError of the read is caught, and the handler's own read of
       \* jsonItem[keyToSchema] raises it again
       IF read.err # "none" THEN [err |-> read.err, body |-> body]
       ELSE IF made.err = "none"
            THEN IF jsonItem.kind = "str" THEN [err |-> "TypeError", body |-> body]
                 ELSE [err |-> "none", body |-> SetItem(body, at, InBody(made.self))]
       ELSE IF made.err = "KeyError"
            THEN [err |-> "none",
                  body |-> SetItem(body, Append(at, StrKey(FailedMarker)), Cause(made.err))]
       ELSE [err |-> made.err, body |-> body]

RECURSIVE transformStr(_, _, _)
\* _transformSchema started on a str that is no item of the body (a
\* character of an iterated str, a key of an iterated dict): the error it
\* raises, "none" when it raises none
transformStr(str, pathKeyDescriptors, schemaClass) ==
    LET n == Len(str)
        step == Head(pathKeyDescriptors)
        load == IF schemaClass.loadParams # 1 THEN "TypeError" ELSE "AttributeError"
        inRange == step.key.kind = "int" /\ Pos(step.key.i, n) \in 1..n
    IN IF pathKeyDescriptors = <<>> THEN "IndexError"
       ELSE IF step.type \notin {"object", "array"}
            THEN IF Len(pathKeyDescriptors) = 1 THEN "UnboundLocalError" ELSE "ValueError"
       ELSE IF step.type = "object" \/ step.key.kind = "str" THEN "TypeError"
       ELSE IF step.key.kind = "int" /\ ~inRange THEN "IndexError"
       ELSE IF step.key.kind = "slice" /\ n = 0 THEN "none"
       ELSE IF Len(pathKeyDescriptors) = 1 THEN load
       ELSE transformStr(<<str[1]>>, Tail(pathKeyDescriptors), schemaClass)

RECURSIVE transformSchema(_, _, _, _, _)
RECURSIVE TransformLoop(_, _, _, _, _, _)
RECURSIVE FanOut(_, _, _, _, _, _, _)
RECURSIVE DeserializeRange(_, _, _, _, _, _)

\* "for schemaIdx in range(sliceStart, sliceEnd, sliceStep)" of slice(None)
DeserializeRange(c, body, loc, schemaIdx, sliceEnd, schemaClass) ==
    IF schemaIdx >= sliceEnd THEN [err |-> "none", body |-> body]
    ELSE LET r == deserializeSchema(c, body, loc, IntKey(schemaIdx), schemaClass)
         IN IF r.err # "none" THEN r
            ELSE DeserializeRange(c, r.body, loc, schemaIdx + 1, sliceEnd, schemaClass)

\* lines 75-90: the last step, currJsonItem the item at loc
LastStep(c, body, pathKeyDescriptors, schemaClass, loc) ==
    LET last == pathKeyDescriptors[Len(pathKeyDescriptors)]
        currJsonItem == ItemAt(body, loc)
    IN IF pathKeyDescriptors = <<>> THEN [err |-> "IndexError", body |-> body]
       ELSE IF last.type = "object"
            THEN deserializeSchema(c, body, loc, last.key, schemaClass)
       ELSE IF last.type = "array"
            THEN IF last.key.kind = "int"
                 THEN deserializeSchema(c, body, loc, last.key, schemaClass)
                 ELSE IF last.key.kind = "slice"
                      THEN IF currJsonItem.kind \in {"list", "dict"}
                           THEN DeserializeRange(c, body, loc, 0, Len(currJsonItem.items),
                                                 schemaClass)
                           ELSE IF currJsonItem.kind = "str"
                                THEN DeserializeRange(c, body, loc, 0, Len(currJsonItem.s),
                                                      schemaClass)
                           ELSE [err |-> "TypeError", body |-> body]
                 ELSE [err |-> "TypeError", body |-> body]
       ELSE IF Len(pathKeyDescriptors) = 1
            THEN [err |-> "UnboundLocalError", body |-> body]
            ELSE [err |-> "ValueError", body |-> body]

\* "for nextJsonItem in currJsonItem[itemKey]" over the list at base, from
\* its idx-th element; an element that is None makes the call start at the
\* root again ("if startJsonItem is None")
FanOut(c, body, restOfPath, schemaClass, base, idx, n) ==
    IF idx >= n THEN [err |-> "none", body |-> body]
    ELSE LET at == Append(base, IntKey(idx))
             nextJsonItem == ItemAt(body, at)
             r == transformSchema(c, body, restOfPath, schemaClass,
                                  IF nextJsonItem.kind = "none" THEN <<>> ELSE at)
         IN IF r.err # "none" THEN r
            ELSE FanOut(c, r.body, restOfPath, schemaClass, base, idx + 1, n)

\* lines 62-73: the loop over pathKeyDescriptors[:-1], from the step at
\* descriptorIdx (0-based), currJsonItem the item at loc
TransformLoop(c, body, pathKeyDescriptors, schemaClass, loc, descriptorIdx) ==
    IF descriptorIdx >= Len(pathKeyDescriptors) - 1
    THEN LastStep(c, body, pathKeyDescriptors, schemaClass, loc)
    ELSE LET step == pathKeyDescriptors[descriptorIdx + 1]
             sub == Subscript(c, ItemAt(body, loc), step.key)
             restOfPath == SubSeq(pathKeyDescriptors, descriptorIdx + 2,
                                  Len(pathKeyDescriptors))
             strErr(str) == IF str = <<>> THEN "none"
                            ELSE transformStr(<<Head(str)>>, restOfPath, schemaClass)
         IN IF step.type = "object"
            THEN IF sub.err # "none" THEN [err |-> sub.err, body |-> body]
                 ELSE TransformLoop(c, body, pathKeyDescriptors, schemaClass,
                                    Append(loc, step.key), descriptorIdx + 1)
            ELSE IF step.type = "array"
            THEN IF sub.err # "none" THEN [err |-> sub.err, body |-> body]
                 ELSE IF sub.val.kind = "list"
                      THEN FanOut(c, body, restOfPath, schemaClass,
                                  IF step.key.kind = "slice" THEN loc
                                  ELSE Append(loc, step.key),
                                  0, Len(sub.val.items))
                 ELSE IF sub.val.kind = "str"
                      THEN [err |-> strErr(sub.val.s), body |-> body]
                 ELSE IF sub.val.kind = "dict"
                      THEN [err |-> IF sub.val.items = <<>> THEN "none"
                                    ELSE transformStr(sub.val.items[1].k, restOfPath,
                                                      schemaClass),
                            body |-> body]
                 ELSE [err |-> "TypeError", body |-> body]
            ELSE [err |-> "ValueError", body |-> body]

\* Response._transformSchema(pathKeyDescriptors, schemaClass, startJsonItem),
\* startJsonItem the item at loc (the root for None): [err, body]
transformSchema(c, body, pathKeyDescriptors, schemaClass, loc) ==
    TransformLoop(c, body, pathKeyDescriptors, schemaClass, loc, 0)

RECURSIVE TransformAll(_, _, _, _)
\* the loop of Response.__init__ over jsonSchemaPathList, from the i-th pair
TransformAll(c, body, jsonSchemaPathList, i) ==
    IF i > Len(jsonSchemaPathList) THEN [err |-> "none", body |-> body]
    ELSE LET r == transformSchema(c, body, jsonSchemaPathList[i].path,
                                  jsonSchemaPathList[i].schemaClass, <<>>)
         IN IF r.err # "none" THEN r ELSE TransformAll(c, r.body, jsonSchemaPathList, i + 1)

\* Response(response, jsonSchemaPathsFromCodes), response.text the JSON text
\* of body: [err, jsonDict, transformedJsonDict]
Response(c, status, body, jsonSchemaPathsFromCodes) ==
    LET jsonSchemaPathList == IF DictHas(jsonSchemaPathsFromCodes, status)
                              THEN DictGet(jsonSchemaPathsFromCodes, status)
                              ELSE <<>>
        r == TransformAll(c, body, jsonSchemaPathList, 1)
    IN [err |-> r.err, jsonDict |-> body, transformedJsonDict |-> r.body]

-----------------------------------------------------------------------------
(* Inputs of the response specification: bodies, descriptors and schema    *)
(* classes                                                                 *)

MaxItems == 2

\* the class UserId with the property v: as _useSchemaTemplate emits it
\* (_loadJsonDict takes jsonDict and looseChecking), and written with the
\* parameters the base class declares for _loadJsonDict
UserId(loadParams) ==
    [name |-> <<"UserId">>, props |-> << <<"v">> >>, propNames |-> << <<"v">> >>,
     loadParams |-> loadParams]

SchemaClasses == {UserId(1), UserId(2)}

Loadable == JDict(<<KV("v", JNum("4"))>>)

UnknownProp == JDict(<<KV("x", JNum("4"))>>)

Leaves == {JNum("4"), JNone, Loadable, UnknownProp, JStr(<<"a">>)}

UserBodies ==
    {JDict(<<KV("u", JDict(<<KV("i", leaf)>>))>>) : leaf \in Leaves}
    \cup {JDict(<<KV("u", JDict(<<>>))>>), JDict(<<>>), JDict(<<KV("s", Loadable)>>)}

Elements == {JNone, JDict(<<KV("k", Loadable)>>), JDict(<<KV("k", UnknownProp)>>),
             JDict(<<>>), Loadable}

ItemLists == UNION {[1..n -> Elements] : n \in 0..MaxItems}

ItemBodies ==
    {JDict(<<KV("s", JList(items))>>) : items \in ItemLists}
    \cup {JDict(<<KV("s", JList(items)), KV("k", Loadable)>>) : items \in ItemLists}

Bodies == UserBodies \cup ItemBodies

Descriptors ==
    { <<ObjectStep(<<"u">>), ObjectStep(<<"i">>)>>,
      <<ObjectStep(<<"s">>), ArrayAllStep, ObjectStep(<<"k">>)>>,
      <<ObjectStep(<<"s">>), ArrayAllStep>>,
      <<ObjectStep(<<"s">>), ArrayIndexStep(0)>>,
      <<>> }

\* jsonSchemaPathsFromCodes: the descriptors of status 200, all of one class
PathLists(schemaClass) ==
    LET pair(d) == [path |-> d, schemaClass |-> schemaClass]
    IN {<<>>} \cup {<<pair(d)>> : d \in Descriptors}
       \cup {<<pair(d1), pair(d2)>> : d1 \in Descriptors, d2 \in Descriptors}

StatusCodes == {200, 404}

\* a verb's response is wrapped: Response(httpResponse, jsonSchemaPathsFromCodes).
\* On an error no Response exists; transformedJsonDict is then the state the
\* abandoned object was left in.
NewResponse ==
    /\ ~response.called
    /\ \E status \in StatusCodes, body \in Bodies, schemaClass \in SchemaClasses,
          sliceHashable \in BOOLEAN :
          \E jsonSchemaPathList \in PathLists(schemaClass) :
             LET r == Response([sliceHashable |-> sliceHashable], status, body,
                               <<[k |-> 200, v |-> jsonSchemaPathList]>>)
             IN response' = [called |-> TRUE, err |-> r.err, status |-> status,
                             body |-> body, paths |-> jsonSchemaPathList,
                             jsonDict |-> r.jsonDict,
                             transformedJsonDict |-> r.transformedJsonDict]
    /\ UNCHANGED <<pathLog, concVars, callVars, nodes, endpointsDict, methods, lastRec, recorded, genResult, apiVars,
                   instance, serialized>>

NextResponse == NewResponse

SpecResponse == Init /\ [][NextResponse]_vars

-----------------------------------------------------------------------------
(* Inputs of the schema specification: instances of a class of three       *)
(* properties                                                              *)

PropNames == {<<"a">>, <<"b">>, <<"c">>}

\* the orders in which the set _propNames may iterate
PropOrders == {o \in [1..Cardinality(PropNames) -> PropNames] :
                  \A i, j \in 1..Cardinality(PropNames) : i # j => o[i] # o[j]}

Pet(propNames) ==
    [name |-> <<"Pet">>, props |-> << <<"a">>, <<"b">>, <<"c">> >>,
     propNames |-> propNames, loadParams |-> 2]

PropValues == {NoProp, JNone, JStr(<<>>), JNum("0"), JStr(<<"x">>)}

Filters == {<<>>, << <<"a">> >>, << <<"b">>, <<"a">> >>, << <<"d">> >>}

\* Pet(a, b, c), each argument given or left at its default NoProp
Construct ==
    /\ ~instance.made
    /\ \E propNames \in PropOrders, args \in [1..Cardinality(PropNames) -> PropValues] :
          LET self == NewSchema(Pet(propNames), args)
          IN instance' = [made |-> TRUE, cls |-> self.cls, fields |-> self.fields,
                          filter |-> self.filter, filtered |-> FALSE]
    /\ UNCHANGED <<pathLog, concVars, callVars, nodes, endpointsDict, methods, lastRec, recorded, genResult, apiVars,
                   response, serialized>>

SerialFilter ==
    /\ instance.made
    /\ \E paramsToUse \in Filters :
          instance' = [instance EXCEPT !.filter = serialFilter(instance, paramsToUse).filter,
                                       !.filtered = TRUE]
    /\ UNCHANGED <<pathLog, concVars, callVars, nodes, endpointsDict, methods, lastRec, recorded, genResult, apiVars,
                   response, serialized>>

Serialize ==
    /\ instance.made
    /\ \E ignoreFilter \in BOOLEAN :
          serialized' = [called |-> TRUE, ignoreFilter |-> ignoreFilter,
                         filter |-> instance.filter,
                         filtered |-> instance.filtered,
                         inner |-> serialize_(instance),
                         out |-> serialize(instance, ignoreFilter)]
    /\ UNCHANGED <<pathLog, concVars, callVars, nodes, endpointsDict, methods, lastRec, recorded, genResult, apiVars,
                   response, instance>>

NextSchema == Construct \/ SerialFilter \/ Serialize

SpecSchema == Init /\ [][NextSchema]_vars

-----------------------------------------------------------------------------
(* Inputs of the deserialize specification: JSON objects for Pet, "d" a    *)
(* field that is not a property of Pet                                     *)

MaxLoadItems == 2

LoadKeys == PropNames \cup {<<"d">>}

LoadValues == {JStr(<<"x">>), JNone}

LoadDicts ==
    {JDict(items) : items \in
        {q \in UNION {[1..n -> [k : LoadKeys, v : LoadValues]] : n \in 0..MaxLoadItems} :
            \A i, j \in 1..Len(q) : i # j => q[i].k # q[j].k}}

\* Pet.fromSerialized(jsonDict); an exception leaves the caller without instance
FromSerialized ==
    /\ ~instance.made
    /\ \E propNames \in PropOrders, jsonDict \in LoadDicts :
          \E r \in {fromSerialized(Pet(propNames), jsonDict)} :
             /\ instance' = IF r.err = "none"
                            THEN [made |-> TRUE, cls |-> r.self.cls, fields |-> r.self.fields,
                                  filter |-> r.self.filter, filtered |-> FALSE]
                            ELSE instance
             /\ loaded' = [called |-> TRUE, op |-> "fromSerialized", jsonDict |-> jsonDict,
                           looseChecking |-> FALSE, before |-> <<>>, err |-> r.err]
    /\ UNCHANGED <<pathLog, concVars, treeVars, apiVars, response, serialized, regen, net, netLog, resolved,
                   propLog>>

\* pet._loadJsonDict(jsonDict, looseChecking), called on an instance directly;
\* the assignments made before an exception stay on the instance
LoadJsonDict ==
    /\ instance.made
    /\ ~loaded.called
    /\ \E jsonDict \in LoadDicts, looseChecking \in BOOLEAN :
          \E r \in {loadJsonDict(instance, jsonDict, looseChecking)} :
             /\ instance' = [instance EXCEPT !.fields = r.self.fields]
             /\ loaded' = [called |-> TRUE, op |-> "_loadJsonDict", jsonDict |-> jsonDict,
                           looseChecking |-> looseChecking, before |-> instance.fields,
                           err |-> r.err]
    /\ UNCHANGED <<pathLog, concVars, treeVars, apiVars, response, serialized, regen, net, netLog, resolved,
                   propLog>>

NextLoad == Construct \/ FromSerialized \/ LoadJsonDict

SpecLoad == Init /\ [][NextLoad]_vars

-----------------------------------------------------------------------------
(* pyblitz.http.network and Request.  A url is a str; the servers dict     *)
(* maps a name to a url.  A request is [verb, url, data, token].           *)

\* registerServer(name, url): a str has no method pop
registerServer(n, name, url) ==
    IF url = <<>> THEN [err |-> "IndexError", net |-> n]
    ELSE IF url[Len(url)] = "/" THEN [err |-> "AttributeError", net |-> n]
    ELSE [err |-> "none", net |-> [n EXCEPT !.servers = DictSet(@, name, url)]]

\* getServer(name)
getServer(n, name) ==
    IF DictHas(n.servers, name) THEN [err |-> "none", url |-> DictGet(n.servers, name)]
    ELSE [err |-> "KeyError", url |-> <<>>]

\* getServerNames()
getServerNames(n) == DictKeys(n.servers)

\* setActiveServer(name)
setActiveServer(n, name) ==
    IF ~DictHas(n.servers, name) THEN [err |-> "ValueError", net |-> n]
    ELSE [err |-> "none",
          net |-> [n EXCEPT !.activeServer = [isNone |-> FALSE,
                                              url |-> DictGet(n.servers, name)]]]

\* setAuth(token)
setAuth(n, token) == [n EXCEPT !.token = token, !.isAuthed = TRUE]

authenticated_serverOnly(n) ==
    IF n.activeServer.isNone THEN "RuntimeError" ELSE "none"

\* the checks of the decorator _authenticated, made before the verb's body
authenticated(n) ==
    IF n.activeServer.isNone THEN "RuntimeError"
    ELSE IF ~n.isAuthed THEN "RuntimeError"
    ELSE "none"

\* _checkIsEndpoint(endpoint), endpoint a class
checkIsEndpoint(endpoint) == IF endpoint.isEndpoint THEN "none" ELSE "ValueError"

\* Request._manipulateDataToStr(data), data None or a dict
manipulateDataToStr(data) == IF data = "None" THEN "" ELSE "json"

\* Request.Get(fullUrl) and the like, then load(data, headers, params)
Request(n, verb, toUrl, data) ==
    [verb |-> verb, url |-> toUrl, data |-> manipulateDataToStr(data), token |-> n.token]

\* DELETE, GET, PATCH, POST, PUT (endpoint, data): the request is sent, then
\* Response(httpResponse) is called without its second argument
Verb(n, verb, endpoint, data) ==
    IF authenticated(n) # "none" THEN [err |-> authenticated(n), sent |-> <<>>]
    ELSE IF checkIsEndpoint(endpoint) # "none"
         THEN [err |-> checkIsEndpoint(endpoint), sent |-> <<>>]
    ELSE [err |-> "TypeError",
          sent |-> <<Request(n, verb, n.activeServer.url \o endpoint.url, data)>>]

-----------------------------------------------------------------------------
(* Inputs of the network specification                                     *)

MaxNetCalls == 5

ServerNames == {"prod", "dev"}

ServerUrls == {<<"https://a">>, <<"https://b">>, <<"https://a", "/">>, <<>>}

Tokens == {"t"}

HttpVerbs == {"DELETE", "GET", "PATCH", "POST", "PUT"}

\* an emitted Endpoint class whose url() is "/u", and a class that is no Endpoint
EndpointClasses == {[isEndpoint |-> TRUE, url |-> <<"/u">>],
                    [isEndpoint |-> FALSE, url |-> <<>>]}

RequestData == {"None", "dict"}

RegisterServer ==
    /\ netLog.count < MaxNetCalls
    /\ \E name \in ServerNames, url \in ServerUrls :
          \E r \in {registerServer(net, name, url)} :
             /\ net' = r.net
             /\ netLog' = [netLog EXCEPT !.count = @ + 1, !.op = "registerServer",
                                         !.name = name, !.url = url, !.err = r.err,
                                         !.before = net]
    /\ UNCHANGED <<pathLog, concVars, treeVars, apiVars, runVars, loaded, regen, resolved, propLog>>

SetActiveServer ==
    /\ netLog.count < MaxNetCalls
    /\ \E name \in ServerNames :
          \E r \in {setActiveServer(net, name)} :
             /\ net' = r.net
             /\ netLog' = [netLog EXCEPT !.count = @ + 1, !.op = "setActiveServer",
                                         !.name = name, !.url = <<>>, !.err = r.err,
                                         !.before = net,
                                         !.activeName = IF r.err = "none" THEN name ELSE @]
    /\ UNCHANGED <<pathLog, concVars, treeVars, apiVars, runVars, loaded, regen, resolved, propLog>>

SetAuth ==
    /\ netLog.count < MaxNetCalls
    /\ \E token \in Tokens :
          /\ net' = setAuth(net, token)
          /\ netLog' = [netLog EXCEPT !.count = @ + 1, !.op = "setAuth", !.name = "",
                                      !.url = <<>>, !.err = "none", !.before = net]
    /\ UNCHANGED <<pathLog, concVars, treeVars, apiVars, runVars, loaded, regen, resolved, propLog>>

SendVerb ==
    /\ netLog.count < MaxNetCalls
    /\ \E verb \in HttpVerbs, endpoint \in EndpointClasses, data \in RequestData :
          \E r \in {Verb(net, verb, endpoint, data)} :
             /\ net' = net
             /\ netLog' = [netLog EXCEPT !.count = @ + 1, !.op = verb, !.name = "",
                                         !.url = <<>>, !.err = r.err, !.before = net,
                                         !.sent = @ \o r.sent]
    /\ UNCHANGED <<pathLog, concVars, treeVars, apiVars, runVars, loaded, regen, resolved, propLog>>

NextNet == RegisterServer \/ SetActiveServer \/ SetAuth \/ SendVerb

SpecNet == Init /\ [][NextNet]_vars

-----------------------------------------------------------------------------
(* Inputs of the resolver specification: documents whose schemas A, B and  *)
(* C are each a string schema, an object schema with a property that is a  *)
(* reference, or a reference to a schema (Z is not defined)                *)

SchemaNames == {"A", "B", "C"}

SchemaBodies ==
    {TypeObj("string"),
     JDict(<<KV("type", JStr(<<"object">>)),
             KV("properties", JDict(<<KV("p", RefObj("schemas", "A"))>>))>>)}
    \cup {RefObj("schemas", name) : name \in SchemaNames \cup {"Z"}}

RefDocs ==
    {JDict(<<KV("openapi", JStr(<<"3.1.0">>)),
             KV("components",
                JDict(<<KV("schemas", JDict(<<KV("A", a), KV("B", b), KV("C", c)>>))>>))>>) :
        a \in SchemaBodies, b \in SchemaBodies, c \in SchemaBodies}

\* loc is the location of a value of the document v
RECURSIVE Defined(_, _)
Defined(v, loc) ==
    \/ loc = <<>>
    \/ /\ v.kind = "dict"
       /\ DictHas(v.items, Head(loc))
       /\ Defined(DictGet(v.items, Head(loc)), Tail(loc))

\* the objects _evalRefObj is called with: the schemas, the property of an
\* object schema, the openapi str
RefArgs(doc) ==
    {loc \in {<< <<"components">>, <<"schemas">>, <<name>> >> : name \in SchemaNames}
              \cup {<< <<"components">>, <<"schemas">>, <<name>>, <<"properties">>, <<"p">> >> :
                       name \in SchemaNames}
              \cup {<< <<"openapi">> >>, << <<"components">> >>} :
        Defined(doc, loc)}

\* parser.parse(doc) has set _currSpecDict; a caller resolves the object at loc
EvalRefObj ==
    /\ ~resolved.called
    /\ \E doc \in RefDocs :
          \E loc \in RefArgs(doc) :
             \E r \in {evalRefObj(doc, loc, MaxRefDepth)} :
                resolved' = [called |-> TRUE, doc |-> doc, arg |-> loc, err |-> r.err,
                             loc |-> r.loc]
    /\ UNCHANGED <<pathLog, concVars, treeVars, apiVars, runVars, loaded, regen, net, netLog, propLog>>

NextResolve == EvalRefObj

SpecResolve == Init /\ [][NextResolve]_vars

-----------------------------------------------------------------------------
(* Inputs of the schema-registry specification                             *)

MaxPropRecords == 3

RegistryNames == {<<"Pet">>, <<"Owner">>}

RegistryDescs == {<<"d1">>, <<"d2">>}

RegistryProps == {<<"id">>, <<"name">>}

\* A caller builds Parser.SchemaProperty(propName, propDesc) and calls
\* _recordSchemaProperty(schemaName, schemaDesc, it)
RecordSchemaProperty ==
    /\ Len(propLog) < MaxPropRecords
    /\ \E schemaName \in RegistryNames, schemaDesc \in RegistryDescs,
          propName \in RegistryProps, propDesc \in RegistryDescs :
          /\ schemaDict' = recordSchemaProperty(schemaDict, schemaName, schemaDesc,
                                                SchemaProperty(propName, propDesc))
          /\ propLog' = Append(propLog, [schemaName |-> schemaName, schemaDesc |-> schemaDesc,
                                         propName |-> propName, propDesc |-> propDesc])
    /\ UNCHANGED <<pathLog, concVars, treeVars, servers, apiCall, apiFile, runVars, loaded, regen, net, netLog,
                   resolved>>

NextRegistry == RecordSchemaProperty

SpecRegistry == Init /\ [][NextRegistry]_vars

-----------------------------------------------------------------------------
(* A caller that builds its own endpoint tree: Parser.Endpoint(pathName,   *)
(* parent), parent.addChild(child) on nodes it already has, and getPath()  *)
(* on any of them                                                          *)

MaxNodes == 3
MaxMoves == 2

SegmentNames == {<<"a">>}

\* n is anc or lies beneath anc along the parent links
RECURSIVE Beneath(_, _, _)
Beneath(ns, n, anc) ==
    \/ n = anc
    \/ ns[n].parent # 0 /\ Beneath(ns, ns[n].parent, anc)

\* Parser.Endpoint(pathName) or Parser.Endpoint(pathName, parent)
NewEndpoint ==
    /\ Len(nodes) < MaxNodes
    /\ \E pathName \in SegmentNames, parent \in 0..Len(nodes) :
          nodes' = Endpoint(nodes, pathName, parent)
    /\ pathLog' = [NoPathLog EXCEPT !.moves = pathLog.moves]
    /\ UNCHANGED <<concVars, callVars, endpointsDict, methods, lastRec, recorded, genResult,
                   apiVars, runVars>>

\* parent.addChild(child) on two nodes of the tree; the caller never hangs a node
\* beneath itself
AddChild ==
    /\ pathLog.moves < MaxMoves
    /\ \E parent \in 1..Len(nodes), child \in 1..Len(nodes) :
          /\ ~Beneath(nodes, parent, child)
          /\ nodes' = addChild(nodes, parent, child)
    /\ pathLog' = [NoPathLog EXCEPT !.moves = pathLog.moves + 1]
    /\ UNCHANGED <<concVars, callVars, endpointsDict, methods, lastRec, recorded, genResult,
                   apiVars, runVars>>

\* n.getPath() on any node; pathLog keeps the call until the tree is changed
CallGetPath ==
    /\ \E n \in 1..Len(nodes) :
          \E r \in {getPath(nodes, n)} :
             /\ nodes' = r.nodes
             /\ pathLog' = [called |-> TRUE, node |-> n, path |-> r.path,
                             moves |-> pathLog.moves]
    /\ UNCHANGED <<concVars, callVars, endpointsDict, methods, lastRec, recorded, genResult,
                   apiVars, runVars>>

NextReparent == NewEndpoint \/ AddChild \/ CallGetPath

SpecReparent == Init /\ [][NextReparent]_vars

-----------------------------------------------------------------------------
(* http.throttler.RequestThrottler.  A thread is inside sendRequest from   *)
(* its call to the return of request.send(); every threading.Timer runs    *)
(* _onTimerEnd in a thread of its own, no earlier than its interval after   *)
(* start().  The lengths of the sleeps of _waitUntilOutOfTimeout only set   *)
(* how often the flag is read and are left out.                             *)

MaxSends == 2

\* the rates a caller sets, in units of time
Rates == {1, 2}

\* the property _inTimeout, without waiting
inTimeout_never(th) == FALSE

\* the property _inTimeout
inTimeout(th) == th.pendingTimer # 0

\* _startTimeout at time `time`: the throttler, the Timer objects, and the
\* Timer created (0 when none is)
startTimeout(th, ts, time) ==
    IF th.throttle > 0
    THEN [throttler |-> [th EXCEPT !.pendingTimer = Len(ts) + 1],
          timers |-> Append(ts, [deadline |-> time + th.throttle, running |-> TRUE]),
          timer |-> Len(ts) + 1]
    ELSE [throttler |-> th, timers |-> ts, timer |-> 0]

\* _clearTimer
clearTimer(th) == [th EXCEPT !.pendingTimer = 0]

\* a callback that clears the flag only when its own Timer is the pending one
onTimerEnd_ownOnly(th, k) == IF th.pendingTimer = k THEN clearTimer(th) ELSE th

\* _onTimerEnd, as the function of Timer k
onTimerEnd(th, k) == clearTimer(th)

\* the Timer objects started and not yet expired
Running(ts) == {k \in 1..Len(ts) : ts[k].running}

\* the sendRequest calls begun so far
RECURSIVE CallsBegun(_, _)
CallsBegun(cs, ts) ==
    IF ts = {} THEN 0
    ELSE LET t == CHOOSE x \in ts : TRUE IN cs[t].calls + CallsBegun(cs, ts \ {t})

\* setThrottle(requestRateSecs), by a caller that sets the rate before the first
\* request
SetThrottle ==
    /\ throttler.throttle = 0
    /\ \A t \in Threads : callers[t] = NoCaller
    /\ \E requestRateSecs \in Rates :
          throttler' = [throttler EXCEPT !.throttle = requestRateSecs]
    /\ UNCHANGED <<callers, timers, now, sent, pathLog, callVars, treeVars, apiVars, runVars>>

\* thread t calls sendRequest(request)
SendRequest(t) ==
    /\ callers[t].pc = "idle"
    /\ CallsBegun(callers, Threads) < MaxSends
    /\ callers' = [callers EXCEPT ![t].pc = "wait", ![t].calls = @ + 1, ![t].timer = 0]
    /\ UNCHANGED <<throttler, timers, now, sent, pathLog, callVars, treeVars, apiVars, runVars>>

\* _waitUntilOutOfTimeout: one reading of "while self._inTimeout"
WaitUntilOutOfTimeout(t) ==
    /\ callers[t].pc = "wait"
    /\ callers' = [callers EXCEPT ![t].pc = IF inTimeout(throttler) THEN "sleep" ELSE "start",
                                  ![t].seen = Len(timers)]
    /\ UNCHANGED <<throttler, timers, now, sent, pathLog, callVars, treeVars, apiVars, runVars>>

\* _waitUntilOutOfTimeout: sleep(sleepTime) returns
Sleep(t) ==
    /\ callers[t].pc = "sleep"
    /\ callers' = [callers EXCEPT ![t].pc = "wait"]
    /\ UNCHANGED <<throttler, timers, now, sent, pathLog, callVars, treeVars, apiVars, runVars>>

\* _startTimeout
StartTimeout(t) ==
    /\ callers[t].pc = "start"
    /\ \E r \in {startTimeout(throttler, timers, now)} :
          /\ throttler' = r.throttler
          /\ timers' = r.timers
          /\ callers' = [callers EXCEPT ![t].pc = "send", ![t].timer = r.timer]
    /\ UNCHANGED <<now, sent, pathLog, callVars, treeVars, apiVars, runVars>>

\* return request.send()
Send(t) ==
    /\ callers[t].pc = "send"
    /\ sent' = Append(sent, [thread |-> t, time |-> now, timer |-> callers[t].timer,
                             seen |-> callers[t].seen,
                             running |-> Running(timers),
                             pendingTimer |-> throttler.pendingTimer])
    /\ callers' = [callers EXCEPT ![t].pc = "idle"]
    /\ UNCHANGED <<throttler, timers, now, pathLog, callVars, treeVars, apiVars, runVars>>

\* Timer k expires and runs _onTimerEnd
OnTimerEnd ==
    /\ \E k \in Running(timers) :
          /\ now >= timers[k].deadline
          /\ timers' = [timers EXCEPT ![k].running = FALSE]
          /\ throttler' = onTimerEnd(throttler, k)
    /\ UNCHANGED <<callers, now, sent, pathLog, callVars, treeVars, apiVars, runVars>>

\* time passes; it is followed only while a Timer is yet to reach its interval
Tick ==
    /\ \E k \in Running(timers) : now < timers[k].deadline
    /\ now' = now + 1
    /\ UNCHANGED <<throttler, callers, timers, sent, pathLog, callVars, treeVars, apiVars,
                   runVars>>

\* a step of thread t inside sendRequest
Inside(t) == WaitUntilOutOfTimeout(t) \/ Sleep(t) \/ StartTimeout(t) \/ Send(t)

\* two threads share the throttler
NextThrottle ==
    \/ SetThrottle
    \/ \E t \in Threads : SendRequest(t) \/ Inside(t)
    \/ OnTimerEnd
    \/ Tick

SpecThrottle == Init /\ [][NextThrottle]_vars

\* one thread calls the throttler
NextSingle ==
    \/ SetThrottle
    \/ SendRequest("main") \/ Inside("main")
    \/ OnTimerEnd
    \/ Tick

\* the calling thread and the Timer threads are scheduled, and time passes
SpecSingle ==
    /\ Init /\ [][NextSingle]_vars
    /\ WF_vars(Inside("main")) /\ WF_vars(OnTimerEnd) /\ WF_vars(Tick)

-----------------------------------------------------------------------------
(* Properties of the endpoint tree (SpecTree)                              *)

\* the segments of the ancestors of n root-to-leaf and its own, each after "/"
RECURSIVE RootToLeaf(_, _)
RootToLeaf(ns, n) ==
    (IF ns[n].parent = 0 THEN <<>> ELSE RootToLeaf(ns, ns[n].parent))
        \o <<"/">> \o ns[n].pathName

BeginsWithSlash(s) == s # <<>> /\ s[1] = "/"

\* C1: after _recordMethod(path, m) for a path that begins with "/", the node
\* that received m has getPath() equal to path, which is also the
\* concatenation of the segments of its ancestors root-to-leaf and its own.
C1_RecordThenGetPath ==
    (lastRec.count > 0 /\ BeginsWithSlash(lastRec.pathUrl)) =>
        /\ lastRec.err = "none"
        /\ lastRec.node # 0
        /\ getMethodFromName(nodes, lastRec.node, lastRec.verb) = lastRec.method
        /\ getPath(nodes, lastRec.node).path = lastRec.pathUrl
        /\ RootToLeaf(nodes, lastRec.node) = lastRec.pathUrl

\* a path of two segments was recorded into a tree that already had nodes, and
\* getPath() was called on the node that received the method
C1_Witness ==
    /\ lastRec.count = 2
    /\ BeginsWithSlash(lastRec.pathUrl)
    /\ Len(PathsSplit(lastRec.pathUrl)) = 2
    /\ lastRec.node # 0
    /\ nodes[lastRec.node].pathSet
    /\ nodes[lastRec.node].path = lastRec.pathUrl

\* C2: recording the same (URL path, verb) pair a second time raises a
\* duplicate-method error and the Method of the first recording stays attached.
C2_DuplicateRaises ==
    lastRec.again =>
        /\ lastRec.err \notin {"none", "AttributeError"}
        /\ lastRec.node # 0
        /\ getMethodFromName(nodes, lastRec.node, lastRec.verb) = lastRec.replaced

-----------------------------------------------------------------------------
(* Properties of the generator's classification (SpecGen)                  *)

NodeIds == 1..Len(nodes)

IsBraced(name) == name # <<>> /\ name[1] = "{" /\ name[Len(name)] = "}"

ChildSet(n) == {nodes[n].childrenDict[i].v : i \in 1..Len(nodes[n].childrenDict)}

VarKids(n) == {c \in ChildSet(n) : IsBraced(nodes[c].pathName)}

\* the classification of section 4.2
ClaimKind(n) ==
    IF IsBraced(nodes[n].pathName) THEN "Variable"
    ELSE IF Cardinality(VarKids(n)) = 1 THEN "Expression"
    ELSE "Fixed"

EmittedKinds(n) ==
    {genResult.emitted[i].kind : i \in {j \in 1..Len(genResult.emitted) :
                                            genResult.emitted[j].node = n}}

\* the tree shapes the two assertions of the Expression path reject
MultiVar == \E n \in NodeIds : Cardinality(VarKids(n)) > 1

VarOfVar == \E n \in NodeIds : \E c \in VarKids(n) : VarKids(c) # {}

NoEmptySegment == \A n \in NodeIds : nodes[n].pathName # <<>>

\* C3: every node is classified Variable iff its segment is wrapped in braces,
\* takes the Expression emission path iff it is not Variable and exactly one of
\* its children is Variable, and is emitted as Fixed otherwise.
C3_Classification ==
    genResult.called =>
        /\ \A n \in NodeIds :
              (isVariableEndpoint(nodes, n) = "yes") <=> IsBraced(nodes[n].pathName)
        /\ \A i \in 1..Len(genResult.taken) :
              genResult.taken[i].kind = ClaimKind(genResult.taken[i].node)
        /\ \A i \in 1..Len(genResult.emitted) :
              genResult.emitted[i].kind = ClaimKind(genResult.emitted[i].node)

\* a node that is not Variable, with exactly two children, both leaves: one
\* Variable and one not (the "users" node with "{id}" and "active")
Mixed(n) ==
    /\ ~IsBraced(nodes[n].pathName)
    /\ Cardinality(ChildSet(n)) = 2
    /\ Cardinality(VarKids(n)) = 1
    /\ \A c \in ChildSet(n) : ChildSet(c) = {} /\ nodes[c].pathName # <<>>

\* C4 as stated: a node with one Variable child plus one fixed child triggers
\* the expression-assertion failure.
C4_MixedChildrenAssert ==
    genResult.called =>
        \A n \in NodeIds : Mixed(n) => genResult.err = "AssertionError"

\* C4 as amended: a node with one Variable child plus one fixed child does not
\* trigger the assertion: unless another node of the tree has more than one
\* Variable child or a Variable child with a Variable child, generation
\* succeeds, the node is emitted as Expression, its Variable child as Variable
\* and its fixed child as Fixed.
C4_MixedChildrenEmitted ==
    genResult.called =>
        \A n \in NodeIds : Mixed(n) =>
            /\ (genResult.err = "AssertionError" => (MultiVar \/ VarOfVar))
            /\ (~MultiVar /\ ~VarOfVar /\ NoEmptySegment) =>
                  /\ genResult.err = "none"
                  /\ EmittedKinds(n) = {"Expression"}
                  /\ \A c \in ChildSet(n) :
                        EmittedKinds(c) = IF c \in VarKids(n) THEN {"Variable"}
                                          ELSE {"Fixed"}

C4_Witness ==
    /\ genResult.called
    /\ genResult.err = "none"
    /\ \E n \in NodeIds : Mixed(n) /\ EmittedKinds(n) = {"Expression"}

\* C5 as stated: generation fails, emitting no class, whenever a node has more
\* than one Variable child and whenever an Expression node has a child that is
\* itself an Expression node.
C5_FailFast ==
    (/\ genResult.called
     /\ \/ MultiVar
        \/ \E n \in NodeIds : \E c \in ChildSet(n) :
              ClaimKind(n) = "Expression" /\ ClaimKind(c) = "Expression")
    => (genResult.err # "none" /\ genResult.emitted = <<>>)

\* C5 as amended: generation fails, emitting no class, whenever a node has more
\* than one Variable child and whenever the Variable child of a node itself
\* has a Variable child.
C5_FailFastVarChild ==
    genResult.called =>
        ((MultiVar \/ VarOfVar) => (genResult.err # "none" /\ genResult.emitted = <<>>))

C5_Witness ==
    /\ genResult.called
    /\ MultiVar
    /\ VarOfVar
    /\ genResult.err = "AssertionError"


-----------------------------------------------------------------------------
(* Properties of generateAPI (SpecAPI)                                     *)

\* C6: whenever generateAPI fails with a specification error, the error
\* propagates to the caller and nothing has been written to the output file.
C6_NoPartialOutput ==
    (apiCall.called /\ apiCall.err # "none") =>
        (apiFile.text = <<>> /\ ~apiFile.exists)

-----------------------------------------------------------------------------
(* Properties of the response replay (SpecResponse)                        *)

\* the key path of object steps is present in v
RECURSIVE ContainsKeyPath(_, _)
ContainsKeyPath(v, path) ==
    \/ path = <<>>
    \/ /\ v.kind = "dict"
       /\ DictHas(v.items, Head(path).key.s)
       /\ ContainsKeyPath(DictGet(v.items, Head(path).key.s), Tail(path))

ObjectSteps(path) == path # <<>> /\ \A i \in 1..Len(path) : path[i].type = "object"

KeysOf(path) == [i \in 1..Len(path) |-> path[i].key]

\* one descriptor was replayed for the status of the response
Replayed(path) ==
    /\ response.called
    /\ response.status = 200
    /\ Len(response.paths) = 1
    /\ response.paths[1].path = path

IsInstance(v, schemaClass) == v.kind = "schema" /\ v.s = schemaClass.name

\* C7: replaying a descriptor made only of object steps against a body that
\* contains the key path builds the Response, puts an instance of the schema
\* class at that location, and leaves every other location as it was (putting
\* the original value back gives the original body).
C7_ObjectPathReplaced ==
    \A path \in Descriptors :
        (Replayed(path) /\ ObjectSteps(path) /\ ContainsKeyPath(response.body, path)) =>
            /\ response.err = "none"
            /\ IsInstance(ItemAt(response.transformedJsonDict, KeysOf(path)),
                          response.paths[1].schemaClass)
            /\ SetItem(response.transformedJsonDict, KeysOf(path),
                       ItemAt(response.body, KeysOf(path))) = response.body

FanOutPath == <<ObjectStep(<<"s">>), ArrayAllStep, ObjectStep(<<"k">>)>>

ItemsOf(v) == DictGet(v.items, <<"s">>).items

\* the body holds an array under "s" whose elements are null or hold the key k
FanOutBody(body) ==
    /\ body.kind = "dict" /\ DictHas(body.items, <<"s">>)
    /\ DictGet(body.items, <<"s">>).kind = "list"
    /\ \A e \in 1..Len(ItemsOf(body)) :
          \/ ItemsOf(body)[e].kind = "none"
          \/ ItemsOf(body)[e].kind = "dict" /\ DictHas(ItemsOf(body)[e].items, <<"k">>)

\* C8: replaying [(object,s),(array,all),(object,k)] builds the Response,
\* keeps the length and the order of the array, puts an instance at k of every
\* element that holds k, and changes nothing else: a null element stays null
\* and the other keys of the body keep their values.
C8_FanOutEveryElement ==
    (Replayed(FanOutPath) /\ FanOutBody(response.body)) =>
        LET before == ItemsOf(response.body)
            after  == ItemsOf(response.transformedJsonDict)
        IN /\ response.err = "none"
           /\ Len(after) = Len(before)
           /\ \A e \in 1..Len(before) :
                 IF before[e].kind = "none" THEN after[e] = before[e]
                 ELSE /\ IsInstance(DictGet(after[e].items, <<"k">>),
                                    response.paths[1].schemaClass)
                      /\ SetItem(after[e], <<StrKey(<<"k">>)>>,
                                 DictGet(before[e].items, <<"k">>)) = before[e]
           /\ SetItem(response.transformedJsonDict, <<StrKey(<<"s">>)>>,
                      DictGet(response.body.items, <<"s">>)) = response.body

\* a dict met on the walk of path lacks the key of its step
RECURSIVE KeyMissing(_, _)
KeyMissing(v, path) ==
    /\ path # <<>>
    /\ \/ /\ Head(path).type = "object" /\ v.kind = "dict"
          /\ IF DictHas(v.items, Head(path).key.s)
             THEN KeyMissing(DictGet(v.items, Head(path).key.s), Tail(path))
             ELSE TRUE
       \/ /\ Head(path).type = "array" /\ Head(path).key.kind = "slice" /\ v.kind = "list"
          /\ \E e \in 1..Len(v.items) : KeyMissing(v.items[e], Tail(path))

RECURSIVE HasMarker(_)
HasMarker(v) ==
    /\ v.kind \in {"dict", "list", "schema"}
    /\ \/ v.kind = "dict" /\ DictHas(v.items, FailedMarker)
       \/ \E i \in 1..Len(v.items) :
             HasMarker(IF v.kind = "list" THEN v.items[i] ELSE v.items[i].v)

\* C9: when a descriptor of the response's status names a key the body
\* lacks, building the Response does not raise and the transformed body
\* carries an error marker.
C9_MissingKeyMarked ==
    (/\ response.called
     /\ response.status = 200
     /\ \E i \in 1..Len(response.paths) : KeyMissing(response.body, response.paths[i].path))
    => (response.err = "none" /\ HasMarker(response.transformedJsonDict))

-----------------------------------------------------------------------------
(* Properties of Schema.serialize (SpecSchema)                             *)

ItemSet(dict) == {<<dict[i].k, dict[i].v>> : i \in 1..Len(dict)}

\* the fields of the instance that hold a value other than NoProp
ProvidedFields ==
    {<<instance.fields[i].k, instance.fields[i].v>> :
        i \in {j \in 1..Len(instance.fields) : instance.fields[j].v.kind # "NoProp"}}

\* C10: the emitted _serialize yields exactly the fields whose value is not
\* NoProp, each once and with its value (None and the other null-like values
\* included); Schema.serialize returns that payload whenever no allow-list
\* applies, and never returns a field left at NoProp.
C10_SerializeOmitsOnlyNoProp ==
    serialized.called =>
        /\ ItemSet(serialized.inner) = ProvidedFields
        /\ Len(serialized.inner) = Cardinality(ProvidedFields)
        /\ (serialized.ignoreFilter \/ serialized.filter = <<>>) =>
               serialized.out = serialized.inner
        /\ ItemSet(serialized.out) \subseteq ProvidedFields

\* an instance with a alone provided, as None, was serialized to {a: None}
C10_Witness ==
    /\ serialized.called
    /\ serialized.filter = <<>>
    /\ ~serialized.ignoreFilter
    /\ DictGet(instance.fields, <<"a">>) = JNone
    /\ DictGet(instance.fields, <<"b">>) = NoProp
    /\ DictGet(instance.fields, <<"c">>) = NoProp
    /\ serialized.out = <<[k |-> <<"a">>, v |-> JNone]>>

-----------------------------------------------------------------------------
(* Properties of deserialization (SpecLoad)                                *)

\* the items of the last loaded JSON object whose name is a property of Pet
KnownItems == {item \in ItemSet(loaded.jsonDict.items) : item[1] \in PropNames}

HasUnknown == \E item \in ItemSet(loaded.jsonDict.items) : item[1] \notin PropNames

\* C11: Pet.fromSerialized(jsonDict), which never requests loose mode, raises
\* for a JSON object with a field that is no property of Pet, and for any
\* other JSON object returns an instance holding every field of the object.
C11_FromSerializedLoads ==
    loaded.called /\ loaded.op = "fromSerialized" =>
        IF HasUnknown THEN loaded.err = "KeyError"
        ELSE /\ loaded.err = "none"
             /\ instance.made
             /\ KnownItems \subseteq ItemSet(instance.fields)

-----------------------------------------------------------------------------
(* Properties of repeated generation (SpecAPI)                             *)

\* C12: a second generation run on the same document and output path as a
\* first, successful run succeeds and leaves a file with the same text.
C12_Deterministic ==
    regen.called => regen.err = "none" /\ apiFile.text = regen.first

-----------------------------------------------------------------------------
(* Properties of the servers parse records (SpecAPI)                       *)

\* the servers list of the document the last generateAPI call read
DocServers ==
    IF Index(apiCall.doc, <<"servers">>).err = "none"
    THEN Index(apiCall.doc, <<"servers">>).val.items ELSE <<>>

EndsWithSlash(url) == url # <<>> /\ url[Len(url)] = "/"

\* C13: the i-th Server recorded by parse holds the url of the i-th server of
\* the document without its final character when that character is "/", and
\* the url unchanged otherwise.
C13_TrailingSlashStripped ==
    \A i \in 1..Len(servers) :
        /\ i <= Len(DocServers)
        /\ LET url == Index(DocServers[i], <<"url">>).val.s
           IN IF EndsWithSlash(url) THEN servers[i].url \o <<"/">> = url
              ELSE servers[i].url = url

\* a server whose url ends with "/" has been recorded
C13_Witness ==
    \E i \in 1..Len(servers) :
        i <= Len(DocServers) /\ EndsWithSlash(Index(DocServers[i], <<"url">>).val.s)

-----------------------------------------------------------------------------
(* Properties of the network state (SpecNet)                               *)

IsVerb(op) == op \in HttpVerbs

\* C14: while no server is active or setAuth has not been called, no request
\* has been sent, and a verb call made in such a state raises.
C14_FailFastUnconfigured ==
    /\ net.activeServer.isNone \/ ~net.isAuthed => netLog.sent = <<>>
    /\ IsVerb(netLog.op) /\ (netLog.before.activeServer.isNone \/ ~netLog.before.isAuthed) =>
           netLog.err = "RuntimeError"

\* a verb call has failed for want of auth, with a server active
C14_Witness ==
    /\ IsVerb(netLog.op)
    /\ ~netLog.before.activeServer.isNone
    /\ ~netLog.before.isAuthed
    /\ netLog.err = "RuntimeError"

\* C19: a registerServer(name, url) call with a non-empty url completes without
\* error, and getServer(name) then returns url without its trailing slash.
C19_RegisterLastWins ==
    netLog.op = "registerServer" /\ netLog.url # <<>> =>
        /\ netLog.err = "none"
        /\ getServer(net, netLog.name).err = "none"
        /\ IF EndsWithSlash(netLog.url)
           THEN getServer(net, netLog.name).url \o <<"/">> = netLog.url
           ELSE getServer(net, netLog.name).url = netLog.url

\* C20: a request is made to the url registered, when the request is made,
\* under the name of the last successful setActiveServer call; and a
\* setActiveServer call with a name that is not registered raises and leaves
\* the active server as it was.
C20_RequestsToLastActivated ==
    /\ IsVerb(netLog.op) /\ netLog.err = "TypeError" =>
           /\ netLog.sent # <<>>
           /\ getServer(net, netLog.activeName).err = "none"
           /\ netLog.sent[Len(netLog.sent)].url
                  = getServer(net, netLog.activeName).url \o <<"/u">>
    /\ netLog.op = "setActiveServer" /\ ~DictHas(netLog.before.servers, netLog.name) =>
           /\ netLog.err = "ValueError"
           /\ net.activeServer = netLog.before.activeServer

-----------------------------------------------------------------------------
(* Properties of reference resolution (SpecResolve)                        *)

IsRefObj(v) == v.kind = "dict" /\ DictHas(v.items, <<"$ref">>)

\* the keys a reference object points to
Pointer(v) == Tail(Split(DictGet(v.items, <<"$ref">>).s))

\* the location reached from loc by following references, at most n of them
RECURSIVE Terminal(_, _, _)
Terminal(doc, loc, n) ==
    IF n > 0 /\ Defined(doc, loc) /\ IsRefObj(At(doc, loc))
    THEN Terminal(doc, Pointer(At(doc, loc)), n - 1)
    ELSE loc

\* the chain of references from the argument ends, within the schemas of the
\* document, at a value that is defined and is no reference object
ChainEnds ==
    /\ Defined(resolved.doc, Terminal(resolved.doc, resolved.arg, 3))
    /\ ~IsRefObj(At(resolved.doc, Terminal(resolved.doc, resolved.arg, 3)))

\* C15: _evalRefObj returns its argument when that is no reference object, and
\* otherwise the value at the end of the chain of references, itself no
\* reference object.
C15_ResolvesChains ==
    resolved.called /\ ChainEnds =>
        /\ resolved.err = "none"
        /\ At(resolved.doc, resolved.loc)
               = At(resolved.doc, Terminal(resolved.doc, resolved.arg, 3))

-----------------------------------------------------------------------------
(* Properties of references during parse (SpecAPI)                         *)

\* v, a value of the document doc, holds a reference object whose pointer
\* names a segment that is absent from doc
RECURSIVE HoldsDangling(_, _)
HoldsDangling(doc, v) ==
    \/ IsRefObj(v) /\ ~Defined(doc, Pointer(v))
    \/ v.kind = "dict" /\ \E i \in 1..Len(v.items) : HoldsDangling(doc, v.items[i].v)
    \/ v.kind = "list" /\ \E i \in 1..Len(v.items) : HoldsDangling(doc, v.items[i])

\* C16: generateAPI on a document that holds a reference to an absent segment
\* does not complete without error.
C16_DanglingRefAborts ==
    apiCall.called /\ HoldsDangling(apiCall.doc, apiCall.doc) => apiCall.err # "none"

-----------------------------------------------------------------------------
(* Properties of the response scanner (SpecAPI)                            *)

IsSchemaRef(v) == IsRefObj(v) /\ Pointer(v)[2] = <<"schemas">>

TypeIs(v, type) ==
    v.kind = "dict" /\ DictHas(v.items, <<"type">>) /\ DictGet(v.items, <<"type">>).s = <<type>>

\* the (descriptor, schema name) pairs of the locations of the schema v that
\* hold a reference to a named schema, descriptor the steps down to v
RECURSIVE RefPairs(_, _)
RefPairs(v, descriptor) ==
    IF IsSchemaRef(v) THEN {<<descriptor, Pointer(v)[Len(Pointer(v))]>>}
    ELSE IF TypeIs(v, "object")
    THEN LET props == DictGet(v.items, <<"properties">>).items
         IN UNION {RefPairs(props[i].v, Append(descriptor, ObjectStep(props[i].k))) :
                      i \in 1..Len(props)}
    ELSE IF TypeIs(v, "array")
    THEN RefPairs(DictGet(v.items, <<"items">>), Append(descriptor, ArrayAllStep))
    ELSE {}

\* the location of the JSON body schema of response 200 of get of the i-th path
BodyLoc(i) ==
    <<<<"paths">>, Index(apiCall.doc, <<"paths">>).val.items[i].k, <<"get">>,
      <<"responses">>, <<"200">>, <<"content">>, <<"application/json">>, <<"schema">>>>

\* the pairs recorded for response 200 of the i-th method, in order
Recorded200(i) ==
    IF DictHas(methods[i].responseSchemasByCode, 200)
    THEN DictGet(methods[i].responseSchemasByCode, 200) ELSE <<>>

\* C17: after a generation that succeeds, the pairs recorded for a response
\* body are, each once, the pairs of the locations of its schema that hold a
\* reference to a named schema, and none from within a referenced schema.
C17_ScannerRecordsRefs ==
    apiCall.called /\ apiCall.err = "none" =>
        \A i \in 1..Len(methods) :
            /\ \A a, b \in 1..Len(Recorded200(i)) :
                   a # b => Recorded200(i)[a] # Recorded200(i)[b]
            /\ {<<Recorded200(i)[a].path, Recorded200(i)[a].schema>> :
                    a \in 1..Len(Recorded200(i))}
                  = IF Defined(apiCall.doc, BodyLoc(i))
                    THEN RefPairs(At(apiCall.doc, BodyLoc(i)), <<>>)
                    ELSE {}

\* a generation has succeeded on a body with references two steps down, and
\* on a body that is a reference to a schema holding a reference
C17_Witness ==
    /\ apiCall.called /\ apiCall.err = "none"
    /\ \E i \in 1..Len(methods) :
          /\ Defined(apiCall.doc, BodyLoc(i))
          /\ At(apiCall.doc, BodyLoc(i)) = BodySchema("nested")
          /\ Len(Recorded200(i)) = 2
    /\ \E i \in 1..Len(methods) :
          /\ Defined(apiCall.doc, BodyLoc(i))
          /\ At(apiCall.doc, BodyLoc(i)) = BodySchema("owner")
          /\ Len(Recorded200(i)) = 1

-----------------------------------------------------------------------------
(* Properties of the schema registry (SpecRegistry)                        *)

NoDuplicateKey(dict) == \A i, j \in 1..Len(dict) : i # j => dict[i].k # dict[j].k

\* the index in propLog of the last call that recorded propName for schemaName
LastRecord(schemaName, propName) ==
    CHOOSE i \in 1..Len(propLog) :
        /\ propLog[i].schemaName = schemaName /\ propLog[i].propName = propName
        /\ \A j \in (i + 1)..Len(propLog) :
               ~(propLog[j].schemaName = schemaName /\ propLog[j].propName = propName)

\* C18: the registry holds one schema for each schema name recorded, no name
\* twice; each schema holds one property for each property name recorded for
\* it, no name twice, with the description of the last call that recorded it.
C18_RegistryByName ==
    /\ NoDuplicateKey(schemaDict)
    /\ {schemaDict[i].k : i \in 1..Len(schemaDict)}
          = {propLog[i].schemaName : i \in 1..Len(propLog)}
    /\ \A s \in 1..Len(schemaDict) :
          LET schema == schemaDict[s].v IN
          /\ schema.name = schemaDict[s].k
          /\ NoDuplicateKey(schema.properties)
          /\ {schema.properties[i].k : i \in 1..Len(schema.properties)}
                = {propLog[i].propName : i \in {j \in 1..Len(propLog) :
                                                   propLog[j].schemaName = schema.name}}
          /\ \A i \in 1..Len(schema.properties) :
                /\ schema.properties[i].v.name = schema.properties[i].k
                /\ schema.properties[i].v.desc
                      = propLog[LastRecord(schema.name, schema.properties[i].k)].propDesc

\* a property has been recorded again for the same schema with another
\* description
C18_Witness ==
    \E i, j \in 1..Len(propLog) :
        /\ i < j
        /\ propLog[i].schemaName = propLog[j].schemaName
        /\ propLog[i].propName = propLog[j].propName
        /\ propLog[i].propDesc # propLog[j].propDesc

-----------------------------------------------------------------------------
(* Properties of a tree built by addChild (SpecReparent)                   *)

\* C21: after any sequence of addChild and getPath calls, getPath() of a node is
\* the concatenation of the segments of its current ancestors root-to-leaf and
\* its own: no cached path is returned once the parent link of the node or of one
\* of its ancestors has changed.
C21_PathFollowsParents ==
    pathLog.called => pathLog.path = RootToLeaf(nodes, pathLog.node)

\* C22: once serialFilter has been called on an instance, serialize() returns
\* exactly the provided (non-NoProp) fields whose names are in the allow-list,
\* whatever allow-list was passed, and serialize(ignoreFilter=True) still returns
\* all the provided fields.
C22_FilterRestricts ==
    serialized.called /\ serialized.filtered =>
        IF serialized.ignoreFilter
        THEN ItemSet(serialized.out) = ProvidedFields
        ELSE ItemSet(serialized.out)
                 = {item \in ProvidedFields : InFilter(serialized.filter, item[1])}

-----------------------------------------------------------------------------
(* Properties of the request throttler (SpecThrottle, SpecSingle)          *)

\* a Timer expires in this step
TimerEnds == Len(timers') = Len(timers) /\ Running(timers') # Running(timers)

\* C23: with two threads in sendRequest and no lock, nothing ties the pending
\* flag to the Timer that set it: whichever Timer expires first clears the flag,
\* also while another Timer is still running.  (The interleaving the claim
\* describes is C23_Witness.)
C23_FirstExpiryClearsFlag ==
    [][TimerEnds => throttler'.pendingTimer = 0]_vars

\* both threads left the wait before either had created its Timer, both requests
\* were sent less than one throttle interval apart, and the Timer that expired
\* first has cleared the flag while the other is still running
C23_Witness ==
    /\ throttler.throttle > 0
    /\ Len(sent) >= 2
    /\ sent[1].thread # sent[2].thread
    /\ sent[1].seen = 0 /\ sent[2].seen = 0
    /\ sent[1].timer # 0 /\ sent[2].timer # 0
    /\ sent[2].time - sent[1].time < throttler.throttle
    /\ \E k \in {sent[1].timer, sent[2].timer} :
          /\ ~timers[k].running
          /\ \A m \in {sent[1].timer, sent[2].timer} \ {k} : timers[m].running
    /\ throttler.pendingTimer = 0

\* the i-th request was sent after the Timer created by the call before it had
\* expired, its whole interval having passed
AfterPreviousTimer(i) ==
    /\ sent[i - 1].timer # 0
    /\ sent[i - 1].timer \notin sent[i].running
    /\ sent[i].time >= timers[sent[i - 1].timer].deadline

\* C24: with one calling thread and a throttle above zero, no request is sent
\* while the Timer started by the previous sendRequest is still pending, so that
\* a full Timer interval lies between the start of that Timer and the next send;
\* and every sendRequest call begun eventually sends its request.
C24_ThrottledAndLive ==
    /\ [](throttler.throttle > 0 => \A i \in 2..Len(sent) : AfterPreviousTimer(i))
    /\ \A n \in 1..(MaxSends + 1) :
          (throttler.throttle > 0 /\ callers["main"].calls = n) ~> (Len(sent) >= n)

\* a second request was sent, by a call that found the Timer of the first
\* pending and waited for it to expire
C24_Witness ==
    /\ throttler.throttle > 0
    /\ Len(sent) >= 2
    /\ sent[2].thread = "main" /\ sent[1].thread = "main"
    /\ sent[2].seen = 1
    /\ sent[2].time > sent[1].time
    /\ sent[2].running = {sent[2].timer}

-----------------------------------------------------------------------------
(* Replay of the recorded descriptors (SpecAPI)                            *)

MaxBodyDepth == 8

\* a response body that conforms to the schema v of the document, every
\* property present and every array of two elements, built depth levels down
RECURSIVE Conforming(_, _, _)
Conforming(doc, v, depth) ==
    IF depth = 0 THEN JNone
    ELSE IF IsRefObj(v) THEN Conforming(doc, At(doc, Pointer(v)), depth - 1)
    ELSE IF TypeIs(v, "array")
    THEN LET item == Conforming(doc, DictGet(v.items, <<"items">>), depth - 1)
         IN JList(<<item, item>>)
    ELSE IF v.kind = "dict" /\ DictHas(v.items, <<"properties">>)
    THEN LET props == DictGet(v.items, <<"properties">>).items
         IN JDict([i \in 1..Len(props) |->
                      [k |-> props[i].k, v |-> Conforming(doc, props[i].v, depth - 1)]])
    ELSE IF TypeIs(v, "string") THEN JStr(<<"x">>)
    ELSE JNum("4")

\* the class emitted for the schema of the document named schemaName; its
\* _loadJsonDict takes loadParams parameters after self
ClassOf(doc, schemaName, loadParams) ==
    LET items == At(doc, <<<<"components">>, <<"schemas">>, schemaName,
                           <<"properties">>>>).items
        props == [i \in 1..Len(items) |-> items[i].k]
    IN [name |-> schemaName, props |-> props, propNames |-> props,
        loadParams |-> loadParams]

\* every location the descriptor path describes in v holds an instance of the
\* class named schemaName
RECURSIVE AllReplaced(_, _, _)
AllReplaced(v, path, schemaName) ==
    IF path = <<>> THEN v.kind = "schema" /\ v.s = schemaName
    ELSE IF Head(path).type = "object"
    THEN /\ v.kind = "dict"
         /\ DictHas(v.items, Head(path).key.s)
         /\ AllReplaced(DictGet(v.items, Head(path).key.s), Tail(path), schemaName)
    ELSE /\ v.kind = "list"
         /\ \A j \in 1..Len(v.items) : AllReplaced(v.items[j], Tail(path), schemaName)

\* _transformSchema replaying the pair rec recorded for the i-th method against
\* a body that conforms to the schema of its response 200
Replay(i, rec, loadParams) ==
    transformSchema([sliceHashable |-> apiCall.sliceHashable],
                    Conforming(apiCall.doc, At(apiCall.doc, BodyLoc(i)), MaxBodyDepth),
                    rec.path, ClassOf(apiCall.doc, rec.schema, loadParams), <<>>)

\* C25: every descriptor the scanner records is non-empty, and replaying it with
\* Response._transformSchema and the emitted schema class against a body that
\* conforms to the declared response raises no error and puts an instance at
\* every location described; a body schema that is itself a reference to a
\* named schema included.
C25_DescriptorsReplayable ==
    apiCall.called /\ apiCall.err = "none" =>
        \A i \in 1..Len(methods) :
            \A a \in 1..Len(Recorded200(i)) :
                /\ Recorded200(i)[a].path # <<>>
                /\ \E r \in {Replay(i, Recorded200(i)[a], 2)} :
                      /\ r.err = "none"
                      /\ AllReplaced(r.body, Recorded200(i)[a].path, Recorded200(i)[a].schema)

-----------------------------------------------------------------------------
(* Shape of the tree built by _recordMethod (SpecTree)                     *)

\* the (node, key) pairs under which node n is entered in a children map
ChildEntries(n) ==
    {<<m, i>> \in (1..Len(nodes)) \X (1..Len(nodes)) :
        i <= Len(nodes[m].childrenDict) /\ nodes[m].childrenDict[i].v = n}

\* roots have no parent and are keyed in the root registry by their segment;
\* every other node is entered in one children map, that of its parent, under
\* its segment
WellFormed ==
    /\ NoDuplicateKey(endpointsDict)
    /\ \A i \in 1..Len(endpointsDict) :
          /\ endpointsDict[i].v \in 1..Len(nodes)
          /\ nodes[endpointsDict[i].v].parent = 0
          /\ nodes[endpointsDict[i].v].pathName = endpointsDict[i].k
    /\ \A n \in 1..Len(nodes) :
          /\ NoDuplicateKey(nodes[n].childrenDict)
          /\ IF nodes[n].parent = 0
             THEN /\ \E i \in 1..Len(endpointsDict) : endpointsDict[i].v = n
                  /\ ChildEntries(n) = {}
             ELSE /\ \A i \in 1..Len(endpointsDict) : endpointsDict[i].v # n
                  /\ Cardinality(ChildEntries(n)) = 1
                  /\ \A e \in ChildEntries(n) :
                        /\ e[1] = nodes[n].parent
                        /\ nodes[e[1]].childrenDict[e[2]].k = nodes[n].pathName

\* a step keeps every root, every node with its segment, parent and children,
\* and every attached method of a verb other than the one recorded
NothingRemoved ==
    /\ Len(nodes') >= Len(nodes)
    /\ \A i \in 1..Len(endpointsDict) :
          /\ DictHas(endpointsDict', endpointsDict[i].k)
          /\ DictGet(endpointsDict', endpointsDict[i].k) = endpointsDict[i].v
    /\ \A n \in 1..Len(nodes) :
          /\ nodes'[n].pathName = nodes[n].pathName
          /\ nodes'[n].parent = nodes[n].parent
          /\ \A i \in 1..Len(nodes[n].childrenDict) :
                /\ DictHas(nodes'[n].childrenDict, nodes[n].childrenDict[i].k)
                /\ DictGet(nodes'[n].childrenDict, nodes[n].childrenDict[i].k)
                      = nodes[n].childrenDict[i].v
          /\ \A i \in 1..Len(nodes[n].methodsDict) :
                /\ DictHas(nodes'[n].methodsDict, nodes[n].methodsDict[i].k)
                /\ nodes[n].methodsDict[i].k # lastRec'.verb =>
                      DictGet(nodes'[n].methodsDict, nodes[n].methodsDict[i].k)
                         = nodes[n].methodsDict[i].v
    /\ \A m \in 1..Len(methods) : methods'[m] = methods[m]

\* C26: after any sequence of _recordMethod calls the endpoint tree is well
\* formed (roots parentless and keyed by their own segment; every other node in
\* the children map of exactly one node, its parent, under its own segment), and
\* no recording removes a node or a method attached under another verb.
C26_TreeWellFormed ==
    /\ []WellFormed
    /\ [][NothingRemoved]_vars

\* two recordings have built a tree with a node below a root, and a node that
\* holds the methods of two verbs
C26_Witness ==
    /\ lastRec.count = 2
    /\ lastRec.err = "none"
    /\ \E n \in 1..Len(nodes) : nodes[n].parent # 0
    /\ \E n \in 1..Len(nodes) : Len(nodes[n].methodsDict) = 2

-----------------------------------------------------------------------------
(* The schemas named by the recorded responses (SpecAPI)                   *)

\* C27: after a successful parse, every schema name in a recorded response
\* (descriptor, schema name) pair of a method is the name of a schema in the
\* schema registry, so the response-schema maps name only emitted classes.
C27_ResponsesNameRecorded ==
    apiCall.called /\ apiCall.err = "none" =>
        \A i \in 1..Len(methods) :
            \A a \in 1..Len(Recorded200(i)) :
                DictHas(schemaDict, Recorded200(i)[a].schema)

\* every reference object within v points into components/schemas
RECURSIVE RefsIntoSchemas(_)
RefsIntoSchemas(v) ==
    /\ IsRefObj(v) => /\ Len(Pointer(v)) >= 3
                      /\ Pointer(v)[1] = <<"components">>
                      /\ Pointer(v)[2] = <<"schemas">>
    /\ v.kind = "dict" => \A i \in 1..Len(v.items) : RefsIntoSchemas(v.items[i].v)
    /\ v.kind = "list" => \A i \in 1..Len(v.items) : RefsIntoSchemas(v.items[i])

\* C28: parse returns or raises on every document whose reference cycles all
\* pass through named schemas under components/schemas (here: whose references
\* all point into components/schemas): it neither loops forever nor recurses
\* without end.
C28_ParseTerminates ==
    apiCall.called /\ RefsIntoSchemas(apiCall.doc) =>
        apiCall.err \notin {"NeverReturns", "RecursionError"}

====
